---- MODULE Spec2Model ----
(***************************************************************************)
(* The lid-driven cavity-flow solver of src/src/navierstokes/flow.py:      *)
(* build_up_b, pressure_poisson and cavity_flow, one action per statement; *)
(* and, at the end of the module, the training loops of train_ode_elem.py  *)
(* and train_ode_linear.py, which share the module's variables but not its *)
(* runs: a run is either one of the solver or one of a training script.    *)
(*                                                                         *)
(* Arrays are numpy arrays: a record with an identity (which object it     *)
(* is), a shape r x c and the cells d[i, j], indexed from 0 as in the      *)
(* source.  Slices, broadcasting and slice assignment follow numpy.        *)
(*                                                                         *)
(* Cell values are IEEE doubles in the program.  The model computes them   *)
(* in the prime field Z_Modulus: sums, differences, products and quotients *)
(* by a nonzero scalar are exact there, and reduction mod Modulus is a     *)
(* ring homomorphism on the rationals the program's formulas produce.  So  *)
(* two cells that the formulas make equal are equal in the model, and two  *)
(* cells the model tells apart are different in exact arithmetic.  A       *)
(* division of an array by a zero scalar gives inf or nan in numpy; both   *)
(* are the one value NaN here, which every later operation keeps (the      *)
(* program never divides by a cell).  A division of one Python scalar by a *)
(* zero scalar raises ZeroDivisionError.  The cells of np.empty_like hold  *)
(* whatever the allocator left there: the value Uninit, which stands for   *)
(* any double and which every operation that reads it passes on.           *)
(***************************************************************************)
EXTENDS Integers, Sequences, FiniteSets, TLC

VARIABLES
    nx, ny, nit,            \* module globals read by the functions
    nt, dt, dx, dy, rho, nu,\* arguments of cavity_flow (scalars)
    u, v, p,                \* arguments of cavity_flow (arrays), rebound by line 45
    un, vn, b,              \* locals of cavity_flow
    pn,                     \* local of pressure_poisson
    n, q,                   \* loop counters of lines 40 and 19
    pc,                     \* the statement about to run
    err,                    \* the exception that ended the run, or "none"
    wr,                     \* the cells the last statement wrote
    hist,                   \* how many times each kernel has completed in this run
    written,                \* the cell writes done so far of a statement applied cell by cell
    epochs,                 \* args.epochs of a training script
    iteration,              \* loop variable of the training loop, -1 before the loop
    best_loss,              \* lowest validation loss the loop has accepted
    val_loss_item,          \* the validation loss computed last
    is_best,                \* the name is_best: "unbound" until an assignment binds it
    store_val_loss,         \* the array of validation losses, <<>> before it is allocated
    saved,                  \* the calls of save_checkpoint made so far, in order
    stored,                 \* the slots of store_val_loss assigned so far, in order
    line,                   \* the statement of the training script about to run
    raised                  \* the exception that ended the training script, or "none"

training == <<epochs, iteration, best_loss, val_loss_item, is_best, store_val_loss,
              saved, stored, line, raised>>

vars == <<nx, ny, nit, nt, dt, dx, dy, rho, nu, u, v, p, un, vn, b, pn, n, q, pc, err, wr, hist, written,
          epochs, iteration, best_loss, val_loss_item, is_best, store_val_loss,
          saved, stored, line, raised>>

params == <<nx, ny, nit, nt, dt, dx, dy, rho, nu>>

\* a run of the solver alone: no training script is running
NotTraining ==
    /\ epochs = 0 /\ iteration = -1 /\ best_loss = 0 /\ val_loss_item = 0
    /\ is_best = "unbound" /\ store_val_loss = <<>> /\ saved = <<>> /\ stored = <<>>
    /\ line = 0 /\ raised = "none"

-----------------------------------------------------------------------------
(* Bounds of the model.                                                    *)

MaxN == 4       \* grids have 2..MaxN rows and columns
MaxNt == 2      \* nt ranges over 0..MaxNt
MaxNit == 2     \* nit ranges over 0..MaxNit
MaxPat == 1     \* the initial fields are drawn from patterns 0..MaxPat

-----------------------------------------------------------------------------
(* Cell values.                                                            *)

Modulus == 46336 + 1

\* inf or nan
NaN == Modulus

\* the content of uninitialised memory
Uninit == Modulus + 1

F(x) == x % Modulus

RECURSIVE PowF(_, _)
PowF(x, e) ==
    IF e = 0 THEN 1
    ELSE LET h == PowF(x, e \div 2)
             hh == (h * h) % Modulus
         IN  IF e % 2 = 1 THEN (hh * x) % Modulus ELSE hh

InvF(x) == PowF(x, Modulus - 2)

\* the value of an operation one of whose operands is not a finite number
Special(x, y) == IF x = Uninit \/ y = Uninit THEN Uninit ELSE NaN

VAdd(x, y) == IF x >= Modulus \/ y >= Modulus THEN Special(x, y) ELSE (x + y) % Modulus

VSub(x, y) == IF x >= Modulus \/ y >= Modulus THEN Special(x, y) ELSE (x - y) % Modulus

VMul(x, y) == IF x >= Modulus \/ y >= Modulus THEN Special(x, y) ELSE (x * y) % Modulus

\* array cell / scalar: numpy gives inf or nan for a zero divisor
VDiv(x, s) ==
    IF x >= Modulus THEN x
    ELSE IF s = 0 THEN NaN
    ELSE (x * InvF(s)) % Modulus

\* Python scalar / Python scalar, for a nonzero divisor (the caller tests for zero)
SDiv(a, s) == (F(a) * InvF(F(s))) % Modulus

VOp(op, x, y) ==
    CASE op = "add" -> VAdd(x, y)
      [] op = "sub" -> VSub(x, y)
      [] op = "mul" -> VMul(x, y)

-----------------------------------------------------------------------------
(* numpy arrays.                                                           *)

Array(id, r, c, d) == [ok |-> TRUE, id |-> id, r |-> r, c |-> c, d |-> d]

\* the outcome of an operation numpy rejects (ValueError: operands could not be broadcast)
Bad == [ok |-> FALSE, id |-> "tmp", r |-> 0, c |-> 0, d |-> <<>>]

Cells(A) == (0 .. A.r - 1) \X (0 .. A.c - 1)

Full(id, r, c, x) == Array(id, r, c, [ij \in (0 .. r - 1) \X (0 .. c - 1) |-> x])

\* np.zeros((r, c))
Zeros(id, r, c) == Full(id, r, c, 0)

\* A.copy(): a new object with A's shape and cells
Copy(A, id) == Array(id, A.r, A.c, A.d)

\* np.empty_like(A): a new object with A's shape; its cells hold no defined value
EmptyLike(A, id) == Full(id, A.r, A.c, Uninit)

\* a slice bound k of an axis of length len, as Python normalises it
Clamp(len, k) ==
    IF k < 0 THEN (IF len + k < 0 THEN 0 ELSE len + k)
    ELSE IF k > len THEN len ELSE k

SliceLen(len, lo, hi) ==
    IF Clamp(len, hi) > Clamp(len, lo) THEN Clamp(len, hi) - Clamp(len, lo) ELSE 0

\* the cells of A that A[r0:r1, c0:c1] names
SliceCells(A, r0, r1, c0, c1) ==
    (Clamp(A.r, r0) .. Clamp(A.r, r1) - 1) \X (Clamp(A.c, c0) .. Clamp(A.c, c1) - 1)

\* A[r0:r1, c0:c1] read as a value (an open end "k:" is written k .. A.r or A.c)
Sl(A, r0, r1, c0, c1) ==
    LET lr == Clamp(A.r, r0)
        lc == Clamp(A.c, c0)
        sr == SliceLen(A.r, r0, r1)
        sc == SliceLen(A.c, c0, c1)
    IN  Array("tmp", sr, sc,
              [ij \in (0 .. sr - 1) \X (0 .. sc - 1) |-> A.d[lr + ij[1], lc + ij[2]]])

\* numpy broadcasting of one axis
Compatible(a, c) == a = c \/ a = 1 \/ c = 1

BDim(a, c) == IF a = 1 THEN c ELSE a

\* elementwise A op B with broadcasting
Bin(op, A, B) ==
    IF ~A.ok \/ ~B.ok THEN Bad
    ELSE IF ~(Compatible(A.r, B.r) /\ Compatible(A.c, B.c)) THEN Bad
    ELSE LET sr == BDim(A.r, B.r)
             sc == BDim(A.c, B.c)
         IN  Array("tmp", sr, sc,
                   [ij \in (0 .. sr - 1) \X (0 .. sc - 1) |->
                       VOp(op,
                           A.d[IF A.r = 1 THEN 0 ELSE ij[1], IF A.c = 1 THEN 0 ELSE ij[2]],
                           B.d[IF B.r = 1 THEN 0 ELSE ij[1], IF B.c = 1 THEN 0 ELSE ij[2]])])

Add(A, B) == Bin("add", A, B)

Sub(A, B) == Bin("sub", A, B)

Mul(A, B) == Bin("mul", A, B)

\* A ** 2
Sq(A) == Bin("mul", A, A)

\* array * scalar, scalar * array (s a value of the field)
MulS(A, s) ==
    IF ~A.ok THEN Bad
    ELSE Array("tmp", A.r, A.c, [ij \in Cells(A) |-> VMul(A.d[ij], s)])

\* array / scalar
DivS(A, s) ==
    IF ~A.ok THEN Bad
    ELSE Array("tmp", A.r, A.c, [ij \in Cells(A) |-> VDiv(A.d[ij], s)])

\* whether A[r0:r1, c0:c1] = R is accepted: R must broadcast to the slice's shape
Assignable(A, r0, r1, c0, c1, R) ==
    /\ R.ok
    /\ R.r = SliceLen(A.r, r0, r1) \/ R.r = 1
    /\ R.c = SliceLen(A.c, c0, c1) \/ R.c = 1

\* A after A[r0:r1, c0:c1] = R: the same object, the slice's cells overwritten
Assign(A, r0, r1, c0, c1, R) ==
    LET lr == Clamp(A.r, r0)
        lc == Clamp(A.c, c0)
        S  == SliceCells(A, r0, r1, c0, c1)
    IN  [A EXCEPT !.d =
            [ij \in Cells(A) |->
                IF ij \in S
                THEN R.d[IF R.r = 1 THEN 0 ELSE ij[1] - lr, IF R.c = 1 THEN 0 ELSE ij[2] - lc]
                ELSE A.d[ij]]]

\* an index k (possibly negative) of an axis of length len, as a position 0 .. len-1
Pos(len, k) == IF k < 0 THEN len + k ELSE k

\* whether index k is in bounds (otherwise IndexError)
InBounds(len, k) == Pos(len, k) >= 0 /\ Pos(len, k) < len

Row(A, k) == {Pos(A.r, k)} \X (0 .. A.c - 1)

Col(A, k) == (0 .. A.r - 1) \X {Pos(A.c, k)}

\* A after A[k, :] = x
SetRow(A, k, x) == [A EXCEPT !.d = [ij \in Cells(A) |-> IF ij \in Row(A, k) THEN x ELSE A.d[ij]]]

\* A after A[:, k] = x
SetCol(A, k, x) == [A EXCEPT !.d = [ij \in Cells(A) |-> IF ij \in Col(A, k) THEN x ELSE A.d[ij]]]

\* A after A[k, :] = A[m, :]
CopyRow(A, k, m) ==
    [A EXCEPT !.d = [ij \in Cells(A) |->
        IF ij \in Row(A, k) THEN A.d[Pos(A.r, m), ij[2]] ELSE A.d[ij]]]

\* A after A[:, k] = A[:, m]
CopyCol(A, k, m) ==
    [A EXCEPT !.d = [ij \in Cells(A) |->
        IF ij \in Col(A, k) THEN A.d[ij[1], Pos(A.c, m)] ELSE A.d[ij]]]

-----------------------------------------------------------------------------
(* The three kernels' array statements, as functions of what they read.    *)
(* Each gives the exception the statement raises ("none" if it completes), *)
(* the array after the statement, and the cells the statement wrote.       *)

Done(A, S) == [exc |-> "none", arr |-> A, cells |-> S]

Raise(e, A) == [exc |-> e, arr |-> A, cells |-> {}]

\* mutant of build_up_b_rhs: the cross term du/dy * dv/dx taken once instead of twice
build_up_b_rhs_CrossOnce(rho_, dt_, u_, v_, dx_, dy_) ==
    LET dudx  == DivS(Sub(Sl(u_, 1, -1, 2, u_.c), Sl(u_, 1, -1, 0, -2)), F(2 * dx_))
        dvdy  == DivS(Sub(Sl(v_, 2, v_.r, 1, -1), Sl(v_, 0, -2, 1, -1)), F(2 * dy_))
        dudy  == DivS(Sub(Sl(u_, 2, u_.r, 1, -1), Sl(u_, 0, -2, 1, -1)), F(2 * dy_))
        cross == DivS(Mul(dudy, Sub(Sl(v_, 1, -1, 2, v_.c), Sl(v_, 1, -1, 0, -2))), F(2 * dx_))
    IN  MulS(Sub(Sub(Sub(MulS(Add(dudx, dvdy), SDiv(1, dt_)),
                         Sq(dudx)),
                     cross),
                 Sq(dvdy)),
             F(rho_))

\* the right-hand side of lines 5-11:
\* rho * (1 / dt * ((u[1:-1,2:] - u[1:-1,0:-2]) / (2*dx) + (v[2:,1:-1] - v[0:-2,1:-1]) / (2*dy))
\*        - ((u[1:-1,2:] - u[1:-1,0:-2]) / (2*dx))**2
\*        - 2 * ((u[2:,1:-1] - u[0:-2,1:-1]) / (2*dy) * (v[1:-1,2:] - v[1:-1,0:-2]) / (2*dx))
\*        - ((v[2:,1:-1] - v[0:-2,1:-1]) / (2*dy))**2)
build_up_b_rhs(rho_, dt_, u_, v_, dx_, dy_) ==
    LET dudx  == DivS(Sub(Sl(u_, 1, -1, 2, u_.c), Sl(u_, 1, -1, 0, -2)), F(2 * dx_))
        dvdy  == DivS(Sub(Sl(v_, 2, v_.r, 1, -1), Sl(v_, 0, -2, 1, -1)), F(2 * dy_))
        dudy  == DivS(Sub(Sl(u_, 2, u_.r, 1, -1), Sl(u_, 0, -2, 1, -1)), F(2 * dy_))
        cross == DivS(Mul(dudy, Sub(Sl(v_, 1, -1, 2, v_.c), Sl(v_, 1, -1, 0, -2))), F(2 * dx_))
    IN  MulS(Sub(Sub(Sub(MulS(Add(dudx, dvdy), SDiv(1, dt_)),
                         Sq(dudx)),
                     MulS(cross, F(2))),
                 Sq(dvdy)),
             F(rho_))

\* mutant of build_up_b: "b = rho * (...)", the result bound to the name instead of
\* written into b[1:-1, 1:-1]
build_up_b_Rebinds(b_, rho_, dt_, u_, v_, dx_, dy_) ==
    LET rhs == build_up_b_rhs(rho_, dt_, u_, v_, dx_, dy_)
    IN  IF dt_ = 0 THEN Raise("ZeroDivisionError", b_)
        ELSE IF ~rhs.ok THEN Raise("ValueError", b_)
        ELSE Done([rhs EXCEPT !.id = "b"], {})

\* mutant of build_up_b: "b[0:-2, 1:-1] = ...", the target slice one row up
build_up_b_ShiftedRows(b_, rho_, dt_, u_, v_, dx_, dy_) ==
    LET rhs == build_up_b_rhs(rho_, dt_, u_, v_, dx_, dy_)
    IN  IF dt_ = 0 THEN Raise("ZeroDivisionError", b_)
        ELSE IF ~Assignable(b_, 0, -2, 1, -1, rhs) THEN Raise("ValueError", b_)
        ELSE Done(Assign(b_, 0, -2, 1, -1, rhs), SliceCells(b_, 0, -2, 1, -1))

\* mutant of build_up_b: "b[1:-1, 0:-2] = ...", the target slice one column left
build_up_b_ShiftedCols(b_, rho_, dt_, u_, v_, dx_, dy_) ==
    LET rhs == build_up_b_rhs(rho_, dt_, u_, v_, dx_, dy_)
    IN  IF dt_ = 0 THEN Raise("ZeroDivisionError", b_)
        ELSE IF ~Assignable(b_, 1, -1, 0, -2, rhs) THEN Raise("ValueError", b_)
        ELSE Done(Assign(b_, 1, -1, 0, -2, rhs), SliceCells(b_, 1, -1, 0, -2))

\* lines 5-12: b[1:-1, 1:-1] = ...; return b
build_up_b(b_, rho_, dt_, u_, v_, dx_, dy_) ==
    LET rhs == build_up_b_rhs(rho_, dt_, u_, v_, dx_, dy_)
    IN  IF dt_ = 0 THEN Raise("ZeroDivisionError", b_)
        ELSE IF ~Assignable(b_, 1, -1, 1, -1, rhs) THEN Raise("ValueError", b_)
        ELSE Done(Assign(b_, 1, -1, 1, -1, rhs), SliceCells(b_, 1, -1, 1, -1))

\* mutant of poisson_interior: the source term read from b[0:-2, 1:-1], one row up, so
\* that the first interior row reads the first row of b
poisson_interior_SourceShifted(p_, pn_, dx_, dy_, b_) ==
    LET den  == 2 * (dx_ * dx_ + dy_ * dy_)
        lap  == DivS(Add(MulS(Add(Sl(pn_, 1, -1, 2, pn_.c), Sl(pn_, 1, -1, 0, -2)), F(dy_ * dy_)),
                         MulS(Add(Sl(pn_, 2, pn_.r, 1, -1), Sl(pn_, 0, -2, 1, -1)), F(dx_ * dx_))),
                     F(den))
        src  == MulS(Sl(b_, 0, -2, 1, -1), SDiv(dx_ * dx_ * dy_ * dy_, den))
        rhs  == Sub(lap, src)
    IN  IF den = 0 THEN Raise("ZeroDivisionError", p_)
        ELSE IF ~Assignable(p_, 1, -1, 1, -1, rhs) THEN Raise("ValueError", p_)
        ELSE Done(Assign(p_, 1, -1, 1, -1, rhs), SliceCells(p_, 1, -1, 1, -1))

\* mutant of poisson_interior: the source term added instead of subtracted
poisson_interior_PlusSource(p_, pn_, dx_, dy_, b_) ==
    LET den  == 2 * (dx_ * dx_ + dy_ * dy_)
        lap  == DivS(Add(MulS(Add(Sl(pn_, 1, -1, 2, pn_.c), Sl(pn_, 1, -1, 0, -2)), F(dy_ * dy_)),
                         MulS(Add(Sl(pn_, 2, pn_.r, 1, -1), Sl(pn_, 0, -2, 1, -1)), F(dx_ * dx_))),
                     F(den))
        src  == MulS(Sl(b_, 1, -1, 1, -1), SDiv(dx_ * dx_ * dy_ * dy_, den))
        rhs  == Add(lap, src)
    IN  IF den = 0 THEN Raise("ZeroDivisionError", p_)
        ELSE IF ~Assignable(p_, 1, -1, 1, -1, rhs) THEN Raise("ValueError", p_)
        ELSE Done(Assign(p_, 1, -1, 1, -1, rhs), SliceCells(p_, 1, -1, 1, -1))

\* lines 21-25: p[1:-1, 1:-1] = ((pn.. + pn..) * dy**2 + (pn.. + pn..) * dx**2) / (2 * (dx**2 + dy**2))
\*                              - dx**2 * dy**2 / (2 * (dx**2 + dy**2)) * b[1:-1, 1:-1]
poisson_interior(p_, pn_, dx_, dy_, b_) ==
    LET den  == 2 * (dx_ * dx_ + dy_ * dy_)
        lap  == DivS(Add(MulS(Add(Sl(pn_, 1, -1, 2, pn_.c), Sl(pn_, 1, -1, 0, -2)), F(dy_ * dy_)),
                         MulS(Add(Sl(pn_, 2, pn_.r, 1, -1), Sl(pn_, 0, -2, 1, -1)), F(dx_ * dx_))),
                     F(den))
        src  == MulS(Sl(b_, 1, -1, 1, -1), SDiv(dx_ * dx_ * dy_ * dy_, den))
        rhs  == Sub(lap, src)
    IN  IF den = 0 THEN Raise("ZeroDivisionError", p_)
        ELSE IF ~Assignable(p_, 1, -1, 1, -1, rhs) THEN Raise("ValueError", p_)
        ELSE Done(Assign(p_, 1, -1, 1, -1, rhs), SliceCells(p_, 1, -1, 1, -1))

\* mutant of PressureBC: line 30 written "p[0, :] = 0"
PressureBC_ZeroesFirstRow ==
    << [line |-> 27, axis |-> "col", k |-> -1, rhs |-> "copy", from |-> -2],
       [line |-> 28, axis |-> "row", k |-> 0,  rhs |-> "copy", from |-> 1],
       [line |-> 29, axis |-> "col", k |-> 0,  rhs |-> "copy", from |-> 1],
       [line |-> 30, axis |-> "row", k |-> 0,  rhs |-> "zero", from |-> 0] >>

\* mutant of PressureBC: line 27 written "p[:, -1] = p[:, -3]"
PressureBC_CopiesThirdColumn ==
    << [line |-> 27, axis |-> "col", k |-> -1, rhs |-> "copy", from |-> -3],
       [line |-> 28, axis |-> "row", k |-> 0,  rhs |-> "copy", from |-> 1],
       [line |-> 29, axis |-> "col", k |-> 0,  rhs |-> "copy", from |-> 1],
       [line |-> 30, axis |-> "row", k |-> -1, rhs |-> "zero", from |-> 0] >>

\* lines 27-30, in the order of the source
PressureBC ==
    << [line |-> 27, axis |-> "col", k |-> -1, rhs |-> "copy", from |-> -2],
       [line |-> 28, axis |-> "row", k |-> 0,  rhs |-> "copy", from |-> 1],
       [line |-> 29, axis |-> "col", k |-> 0,  rhs |-> "copy", from |-> 1],
       [line |-> 30, axis |-> "row", k |-> -1, rhs |-> "zero", from |-> 0] >>

\* mutant of pressure_bc: line 30 written "p[-1, :] = 1"
pressure_bc_LidPressureOne(p_, s) ==
    IF s.rhs = "zero"
    THEN Done(SetRow(p_, s.k, 1), Row(p_, s.k))
    ELSE IF s.axis = "col"
    THEN (IF ~InBounds(p_.c, s.from) THEN Raise("IndexError", p_)
          ELSE Done(CopyCol(p_, s.k, s.from), Col(p_, s.k)))
    ELSE (IF ~InBounds(p_.r, s.from) THEN Raise("IndexError", p_)
          ELSE Done(CopyRow(p_, s.k, s.from), Row(p_, s.k)))

\* mutant of pressure_bc: line 28 written "p[0, 1:-1] = p[1, 1:-1]", the corners of
\* the first row left out
pressure_bc_RowInsideOnly(p_, s) ==
    IF s.rhs = "zero"
    THEN Done(SetRow(p_, s.k, 0), Row(p_, s.k))
    ELSE IF s.axis = "col"
    THEN (IF ~InBounds(p_.c, s.from) THEN Raise("IndexError", p_)
          ELSE Done(CopyCol(p_, s.k, s.from), Col(p_, s.k)))
    ELSE (IF ~InBounds(p_.r, s.from) THEN Raise("IndexError", p_)
          ELSE Done([p_ EXCEPT !.d = [ij \in Cells(p_) |->
                        IF ij \in Row(p_, s.k) /\ ij[2] \notin {0, p_.c - 1}
                        THEN p_.d[Pos(p_.r, s.from), ij[2]] ELSE p_.d[ij]]],
                    Row(p_, s.k)))

\* one of lines 27-30 applied to p
pressure_bc(p_, s) ==
    IF s.rhs = "zero"
    THEN Done(SetRow(p_, s.k, 0), Row(p_, s.k))
    ELSE IF s.axis = "col"
    THEN (IF ~InBounds(p_.c, s.from) THEN Raise("IndexError", p_)
          ELSE Done(CopyCol(p_, s.k, s.from), Col(p_, s.k)))
    ELSE (IF ~InBounds(p_.r, s.from) THEN Raise("IndexError", p_)
          ELSE Done(CopyRow(p_, s.k, s.from), Row(p_, s.k)))

\* the terms lines 47-56 and 58-67 share: w is the field advanced (un or vn)
\* w[1:-1,1:-1] - un[1:-1,1:-1]*dt/dx*(w[1:-1,1:-1]-w[1:-1,0:-2])
\*              - vn[1:-1,1:-1]*dt/dy*(w[1:-1,1:-1]-w[0:-2,1:-1])
Advect(w, un_, vn_, dt_, dx_, dy_) ==
    LET c == Sl(w, 1, -1, 1, -1)
    IN  Sub(Sub(c,
                Mul(DivS(MulS(Sl(un_, 1, -1, 1, -1), F(dt_)), F(dx_)),
                    Sub(c, Sl(w, 1, -1, 0, -2)))),
            Mul(DivS(MulS(Sl(vn_, 1, -1, 1, -1), F(dt_)), F(dy_)),
                Sub(c, Sl(w, 0, -2, 1, -1))))

\* nu * (dt/dx**2 * (w[1:-1,2:] - 2*w[1:-1,1:-1] + w[1:-1,0:-2])
\*       + dt/dy**2 * (w[2:,1:-1] - 2*w[1:-1,1:-1] + w[0:-2,1:-1]))
Diffuse(w, nu_, dt_, dx_, dy_) ==
    LET c2 == MulS(Sl(w, 1, -1, 1, -1), F(2))
    IN  MulS(Add(MulS(Add(Sub(Sl(w, 1, -1, 2, w.c), c2), Sl(w, 1, -1, 0, -2)),
                      SDiv(dt_, dx_ * dx_)),
                 MulS(Add(Sub(Sl(w, 2, w.r, 1, -1), c2), Sl(w, 0, -2, 1, -1)),
                      SDiv(dt_, dy_ * dy_))),
             F(nu_))

\* lines 47-56: u[1:-1, 1:-1] = ...
update_u(u_, un_, vn_, p_, dt_, dx_, dy_, rho_, nu_) ==
    LET adv  == Advect(un_, un_, vn_, dt_, dx_, dy_)
        grad == MulS(Sub(Sl(p_, 1, -1, 2, p_.c), Sl(p_, 1, -1, 0, -2)), SDiv(dt_, 2 * rho_ * dx_))
        rhs  == Add(Sub(adv, grad), Diffuse(un_, nu_, dt_, dx_, dy_))
    IN  IF ~adv.ok THEN Raise("ValueError", u_)
        ELSE IF 2 * rho_ * dx_ = 0 THEN Raise("ZeroDivisionError", u_)
        ELSE IF ~Sub(adv, grad).ok THEN Raise("ValueError", u_)
        ELSE IF dx_ * dx_ = 0 \/ dy_ * dy_ = 0 THEN Raise("ZeroDivisionError", u_)
        ELSE IF ~Assignable(u_, 1, -1, 1, -1, rhs) THEN Raise("ValueError", u_)
        ELSE Done(Assign(u_, 1, -1, 1, -1, rhs), SliceCells(u_, 1, -1, 1, -1))

\* mutant of update_v: the pressure term of line 63 copied from line 52, the gradient
\* of p along x over dx
update_v_GradientAlongX(v_, un_, vn_, p_, dt_, dx_, dy_, rho_, nu_) ==
    LET adv  == Advect(vn_, un_, vn_, dt_, dx_, dy_)
        grad == MulS(Sub(Sl(p_, 1, -1, 2, p_.c), Sl(p_, 1, -1, 0, -2)), SDiv(dt_, 2 * rho_ * dx_))
        rhs  == Add(Sub(adv, grad), Diffuse(vn_, nu_, dt_, dx_, dy_))
    IN  IF ~adv.ok THEN Raise("ValueError", v_)
        ELSE IF 2 * rho_ * dx_ = 0 THEN Raise("ZeroDivisionError", v_)
        ELSE IF ~Sub(adv, grad).ok THEN Raise("ValueError", v_)
        ELSE IF dx_ * dx_ = 0 \/ dy_ * dy_ = 0 THEN Raise("ZeroDivisionError", v_)
        ELSE IF ~Assignable(v_, 1, -1, 1, -1, rhs) THEN Raise("ValueError", v_)
        ELSE Done(Assign(v_, 1, -1, 1, -1, rhs), SliceCells(v_, 1, -1, 1, -1))

\* lines 58-67: v[1:-1, 1:-1] = ...
update_v(v_, un_, vn_, p_, dt_, dx_, dy_, rho_, nu_) ==
    LET adv  == Advect(vn_, un_, vn_, dt_, dx_, dy_)
        grad == MulS(Sub(Sl(p_, 2, p_.r, 1, -1), Sl(p_, 0, -2, 1, -1)), SDiv(dt_, 2 * rho_ * dy_))
        rhs  == Add(Sub(adv, grad), Diffuse(vn_, nu_, dt_, dx_, dy_))
    IN  IF ~adv.ok THEN Raise("ValueError", v_)
        ELSE IF 2 * rho_ * dy_ = 0 THEN Raise("ZeroDivisionError", v_)
        ELSE IF ~Sub(adv, grad).ok THEN Raise("ValueError", v_)
        ELSE IF dx_ * dx_ = 0 \/ dy_ * dy_ = 0 THEN Raise("ZeroDivisionError", v_)
        ELSE IF ~Assignable(v_, 1, -1, 1, -1, rhs) THEN Raise("ValueError", v_)
        ELSE Done(Assign(v_, 1, -1, 1, -1, rhs), SliceCells(v_, 1, -1, 1, -1))

\* mutant of VelocityBC: the lid row written before the side walls
VelocityBC_LidBeforeWalls ==
    << [line |-> 69, arr |-> "u", axis |-> "row", k |-> 0,  x |-> 0],
       [line |-> 70, arr |-> "u", axis |-> "row", k |-> -1, x |-> 1],
       [line |-> 71, arr |-> "u", axis |-> "col", k |-> 0,  x |-> 0],
       [line |-> 72, arr |-> "u", axis |-> "col", k |-> -1, x |-> 0],
       [line |-> 73, arr |-> "v", axis |-> "row", k |-> 0,  x |-> 0],
       [line |-> 74, arr |-> "v", axis |-> "row", k |-> -1, x |-> 0],
       [line |-> 75, arr |-> "v", axis |-> "col", k |-> 0,  x |-> 0],
       [line |-> 76, arr |-> "v", axis |-> "col", k |-> -1, x |-> 0] >>

\* lines 69-76, in the order of the source
VelocityBC ==
    << [line |-> 69, arr |-> "u", axis |-> "row", k |-> 0,  x |-> 0],
       [line |-> 70, arr |-> "u", axis |-> "col", k |-> 0,  x |-> 0],
       [line |-> 71, arr |-> "u", axis |-> "col", k |-> -1, x |-> 0],
       [line |-> 72, arr |-> "u", axis |-> "row", k |-> -1, x |-> 1],
       [line |-> 73, arr |-> "v", axis |-> "row", k |-> 0,  x |-> 0],
       [line |-> 74, arr |-> "v", axis |-> "row", k |-> -1, x |-> 0],
       [line |-> 75, arr |-> "v", axis |-> "col", k |-> 0,  x |-> 0],
       [line |-> 76, arr |-> "v", axis |-> "col", k |-> -1, x |-> 0] >>

\* mutant of velocity_bc: the boundary value is added to the cells ("u[k, :] += x")
\* instead of replacing them
velocity_bc_Blends(A, s) ==
    IF s.axis = "row"
    THEN Done([A EXCEPT !.d = [ij \in Cells(A) |->
                  IF ij \in Row(A, s.k) THEN VAdd(A.d[ij], s.x) ELSE A.d[ij]]], Row(A, s.k))
    ELSE Done([A EXCEPT !.d = [ij \in Cells(A) |->
                  IF ij \in Col(A, s.k) THEN VAdd(A.d[ij], s.x) ELSE A.d[ij]]], Col(A, s.k))

\* mutant of velocity_bc: the lid value written to u[-1, 1:-1] only, the two corners
\* left to the side walls
velocity_bc_LidInsideOnly(A, s) ==
    IF s.axis = "row"
    THEN Done([A EXCEPT !.d = [ij \in Cells(A) |->
                  IF ij \in Row(A, s.k) /\ (s.x = 0 \/ ij[2] \notin {0, A.c - 1})
                  THEN s.x ELSE A.d[ij]]], Row(A, s.k))
    ELSE Done(SetCol(A, s.k, s.x), Col(A, s.k))

\* one of lines 69-76 applied to its array
velocity_bc(A, s) ==
    IF s.axis = "row" THEN Done(SetRow(A, s.k, s.x), Row(A, s.k))
    ELSE Done(SetCol(A, s.k, s.x), Col(A, s.k))

-----------------------------------------------------------------------------
(* The calls the model starts from.                                        *)

\* a name not bound to an array (a local before its first assignment, or after its
\* function returned)
Unbound == [ok |-> FALSE, id |-> "unbound", r |-> 0, c |-> 0, d |-> <<>>]

\* the initial fields: pattern 0 is np.zeros (lines 109-111), the others are
\* non-uniform fields with non-zero first and second differences
Pattern(k, i, j) == k * (1 + i * i + 2 * j + i * j * j)

Field(id, r, c, k, s) ==
    Array(id, r, c, [ij \in (0 .. r - 1) \X (0 .. c - 1) |-> Pattern(k, ij[1] + s, ij[2] + 2 * s)])

Dims == 2 .. MaxN

\* <<dt, dx, dy, rho, nu>>: configurations with all of dt, dx, dy positive ...
ValidScalars == { <<1, 1, 1, 1, 1>>, <<2, 1, 2, 3, 5>>, <<1, 2, 1, 2, 0>> }

\* ... and configurations with one of them, or rho, not positive
InvalidScalars == { <<0, 1, 1, 1, 1>>, <<1, 0, 1, 1, 1>>, <<1, 1, 0, 1, 1>>, <<1, 0, 0, 1, 1>>,
                    <<1, -1, 2, 1, 1>>, <<-1, 1, 1, 1, 1>>, <<1, 1, 1, 0, 1>> }

\* which of the caller's arrays has a shape other than the grid's (ny, nx)
Mismatches == {"none", "u", "v", "p", "uvp"}

ShapeOf(name, m, r, c) ==
    IF m = name \/ m = "uvp" THEN <<r + 1, c + 1>> ELSE <<r, c>>

Init ==
    \E r \in Dims, c \in Dims, m \in Mismatches, sc \in ValidScalars \cup InvalidScalars,
       t \in 0 .. MaxNt, it \in 0 .. MaxNit, k \in 0 .. MaxPat :
        /\ m # "none" => sc = <<1, 1, 1, 1, 1>>
        /\ ny = r /\ nx = c /\ nit = it /\ nt = t
        /\ dt = sc[1] /\ dx = sc[2] /\ dy = sc[3] /\ rho = sc[4] /\ nu = sc[5]
        /\ u = Field("u", ShapeOf("u", m, r, c)[1], ShapeOf("u", m, r, c)[2], k, 0)
        /\ v = Field("v", ShapeOf("v", m, r, c)[1], ShapeOf("v", m, r, c)[2], k, 1)
        /\ p = Field("p", ShapeOf("p", m, r, c)[1], ShapeOf("p", m, r, c)[2], k, 2)
        /\ un = Unbound /\ vn = Unbound /\ b = Unbound /\ pn = Unbound
        /\ n = 0 /\ q = 0
        /\ pc = 36
        /\ err = "none"
        /\ wr = [arr |-> "none", kind |-> "none", cells |-> {}]
        /\ hist = [build |-> 0, solve |-> 0, sweep |-> 0, update |-> 0]
        /\ written = {}
        /\ NotTraining

-----------------------------------------------------------------------------
(* The statements.                                                         *)

NoWrite == [arr |-> "none", kind |-> "none", cells |-> {}]

Running == err = "none"

\* mutant of Enter: line 38 written "b = np.ones((ny, nx))"
Enter_AllocatesOnes ==
    /\ Running /\ pc = 36
    /\ un' = EmptyLike(u, "un")
    /\ vn' = EmptyLike(v, "vn")
    /\ b' = Full("b", ny, nx, 1)
    /\ pc' = 40
    /\ wr' = NoWrite
    /\ UNCHANGED <<training, written, hist, params, u, v, p, pn, n, q, err>>

\* lines 36-38
Enter ==
    /\ Running /\ pc = 36
    /\ un' = EmptyLike(u, "un")
    /\ vn' = EmptyLike(v, "vn")
    /\ b' = Zeros("b", ny, nx)
    /\ pc' = 40
    /\ wr' = NoWrite
    /\ UNCHANGED <<training, written, hist, params, u, v, p, pn, n, q, err>>

\* mutant of ForTimestep: the loop bound off by one
ForTimestep_OneMore ==
    /\ Running /\ pc = 40
    /\ pc' = IF n <= nt THEN 41 ELSE 78
    /\ wr' = NoWrite
    /\ UNCHANGED <<training, written, hist, params, u, v, p, un, vn, b, pn, n, q, err>>

\* mutant of ForTimestep: the body run once before the bound is tested (a do-while)
ForTimestep_AtLeastOnce ==
    /\ Running /\ pc = 40
    /\ pc' = IF n < nt \/ n = 0 THEN 41 ELSE 78
    /\ wr' = NoWrite
    /\ UNCHANGED <<training, written, hist, params, u, v, p, un, vn, b, pn, n, q, err>>

\* line 40: for n in range(nt)
ForTimestep ==
    /\ Running /\ pc = 40
    /\ pc' = IF n < nt THEN 41 ELSE 78
    /\ wr' = NoWrite
    /\ UNCHANGED <<training, written, hist, params, u, v, p, un, vn, b, pn, n, q, err>>

\* mutant of CopyU: the snapshot is not taken, un stays what line 36 allocated
CopyU_Skipped ==
    /\ Running /\ pc = 41
    /\ pc' = 42
    /\ wr' = NoWrite
    /\ UNCHANGED <<training, written, hist, params, u, v, p, un, vn, b, pn, n, q, err>>

\* line 41: un = u.copy()
CopyU ==
    /\ Running /\ pc = 41
    /\ un' = Copy(u, "un")
    /\ pc' = 42
    /\ wr' = NoWrite
    /\ UNCHANGED <<training, written, hist, params, u, v, p, vn, b, pn, n, q, err>>

\* line 42: vn = v.copy()
CopyV ==
    /\ Running /\ pc = 42
    /\ vn' = Copy(v, "vn")
    /\ pc' = 44
    /\ wr' = NoWrite
    /\ UNCHANGED <<training, written, hist, params, u, v, p, un, b, pn, n, q, err>>

\* mutant of BuildUpB: build_up_b also rescales the velocity it was given, in place
\* ("u *= 2")
BuildUpB_RescalesU ==
    /\ Running /\ pc = 44
    /\ LET res == build_up_b(b, rho, dt, u, v, dx, dy)
       IN  /\ b' = res.arr
           /\ err' = res.exc
           /\ pc' = IF res.exc = "none" THEN 45 ELSE pc
           /\ wr' = IF res.exc = "none" THEN [arr |-> "b", kind |-> "fd", cells |-> res.cells]
                    ELSE NoWrite
    /\ u' = [u EXCEPT !.d = MulS(u, F(2)).d]
    /\ hist' = IF err' = "none" THEN [hist EXCEPT !.build = @ + 1] ELSE hist
    /\ UNCHANGED <<training, written, params, v, p, un, vn, pn, n, q>>

\* line 44: b = build_up_b(b, rho, dt, u, v, dx, dy)
BuildUpB ==
    /\ Running /\ pc = 44
    /\ LET res == build_up_b(b, rho, dt, u, v, dx, dy)
       IN  /\ b' = res.arr
           /\ err' = res.exc
           /\ pc' = IF res.exc = "none" THEN 45 ELSE pc
           /\ wr' = IF res.exc = "none" THEN [arr |-> "b", kind |-> "fd", cells |-> res.cells]
                    ELSE NoWrite
    /\ hist' = IF err' = "none" THEN [hist EXCEPT !.build = @ + 1] ELSE hist
    /\ UNCHANGED <<training, written, params, u, v, p, un, vn, pn, n, q>>

\* mutant of PoissonEnter: pressure_poisson starts with "p = p.copy()" and so works on,
\* and returns, an array of its own
PoissonEnter_WorksOnCopy ==
    /\ Running /\ pc = 45
    /\ p' = Copy(p, "p_copy")
    /\ pn' = EmptyLike(p, "pn")
    /\ q' = 0
    /\ pc' = 17
    /\ wr' = NoWrite
    /\ UNCHANGED <<training, written, hist, params, u, v, un, vn, b, n, err>>

\* line 45, the call, and line 16: pn = np.empty_like(p)
PoissonEnter ==
    /\ Running /\ pc = 45
    /\ pn' = EmptyLike(p, "pn")
    /\ q' = 0
    /\ pc' = 17
    /\ wr' = NoWrite
    /\ UNCHANGED <<training, written, hist, params, u, v, p, un, vn, b, n, err>>

\* line 17: pn = p.copy()
PoissonCopy ==
    /\ Running /\ pc = 17
    /\ pn' = Copy(p, "pn")
    /\ pc' = 19
    /\ wr' = NoWrite
    /\ UNCHANGED <<training, written, hist, params, u, v, p, un, vn, b, n, q, err>>

\* mutant of ForSweep: a convergence test ends the loop once a sweep left p as it was
ForSweep_UntilConverged ==
    /\ Running /\ pc = 19
    /\ pc' = IF q < nit /\ (q = 0 \/ p.d # pn.d) THEN 20 ELSE 32
    /\ wr' = NoWrite
    /\ UNCHANGED <<training, written, hist, params, u, v, p, un, vn, b, pn, n, q, err>>

\* line 19: for q in range(nit)
ForSweep ==
    /\ Running /\ pc = 19
    /\ pc' = IF q < nit THEN 20 ELSE 32
    /\ wr' = NoWrite
    /\ UNCHANGED <<training, written, hist, params, u, v, p, un, vn, b, pn, n, q, err>>

\* line 20: pn = p.copy()
CopyP ==
    /\ Running /\ pc = 20
    /\ pn' = Copy(p, "pn")
    /\ pc' = 21
    /\ wr' = NoWrite
    /\ UNCHANGED <<training, written, hist, params, u, v, p, un, vn, b, n, q, err>>

\* lines 21-25
SweepInterior ==
    /\ Running /\ pc = 21
    /\ LET res == poisson_interior(p, pn, dx, dy, b)
       IN  /\ p' = res.arr
           /\ err' = res.exc
           /\ pc' = IF res.exc = "none" THEN 27 ELSE pc
           /\ wr' = IF res.exc = "none" THEN [arr |-> "p", kind |-> "fd", cells |-> res.cells]
                    ELSE NoWrite
    /\ UNCHANGED <<training, written, hist, params, u, v, un, vn, b, pn, n, q>>

\* lines 27-30, one statement per step; after line 30 the sweep is over
SweepBoundary ==
    /\ Running
    /\ \E k \in DOMAIN PressureBC :
        /\ pc = PressureBC[k].line
        /\ LET res == pressure_bc(p, PressureBC[k])
           IN  /\ p' = res.arr
               /\ err' = res.exc
               /\ pc' = IF res.exc # "none" THEN pc
                        ELSE IF k < Len(PressureBC) THEN PressureBC[k + 1].line ELSE 19
               /\ q' = IF res.exc = "none" /\ k = Len(PressureBC) THEN q + 1 ELSE q
               /\ wr' = IF res.exc = "none" THEN [arr |-> "p", kind |-> "bc", cells |-> res.cells]
                        ELSE NoWrite
    /\ hist' = IF q' = q + 1 THEN [hist EXCEPT !.sweep = @ + 1] ELSE hist
    /\ UNCHANGED <<training, written, params, u, v, un, vn, b, pn, n>>

\* mutant of PoissonReturn: "return pn", the snapshot of the last sweep returned
\* instead of p
PoissonReturn_ReturnsSnapshot ==
    /\ Running /\ pc = 32
    /\ p' = pn
    /\ pn' = Unbound
    /\ pc' = 47
    /\ wr' = NoWrite
    /\ hist' = [hist EXCEPT !.solve = @ + 1]
    /\ UNCHANGED <<training, written, params, u, v, un, vn, b, n, q, err>>

\* line 32 and the assignment of line 45: p is bound to the array pressure_poisson returns
PoissonReturn ==
    /\ Running /\ pc = 32
    /\ pn' = Unbound
    /\ pc' = 47
    /\ wr' = NoWrite
    /\ hist' = [hist EXCEPT !.solve = @ + 1]
    /\ UNCHANGED <<training, written, params, u, v, p, un, vn, b, n, q, err>>

\* lines 47-56
UpdateU ==
    /\ Running /\ pc = 47
    /\ LET res == update_u(u, un, vn, p, dt, dx, dy, rho, nu)
       IN  /\ u' = res.arr
           /\ err' = res.exc
           /\ pc' = IF res.exc = "none" THEN 58 ELSE pc
           /\ wr' = IF res.exc = "none" THEN [arr |-> "u", kind |-> "fd", cells |-> res.cells]
                    ELSE NoWrite
    /\ UNCHANGED <<training, written, hist, params, v, p, un, vn, b, pn, n, q>>

\* mutant of UpdateV: lines 59-60 read u, which line 47 has just written, instead of
\* the snapshot un
UpdateV_ReadsU ==
    /\ Running /\ pc = 58
    /\ LET res == update_v(v, u, vn, p, dt, dx, dy, rho, nu)
       IN  /\ v' = res.arr
           /\ err' = res.exc
           /\ pc' = IF res.exc = "none" THEN 69 ELSE pc
           /\ wr' = IF res.exc = "none" THEN [arr |-> "v", kind |-> "fd", cells |-> res.cells]
                    ELSE NoWrite
    /\ UNCHANGED <<training, written, hist, params, u, p, un, vn, b, pn, n, q>>

\* lines 58-67
UpdateV ==
    /\ Running /\ pc = 58
    /\ LET res == update_v(v, un, vn, p, dt, dx, dy, rho, nu)
       IN  /\ v' = res.arr
           /\ err' = res.exc
           /\ pc' = IF res.exc = "none" THEN 69 ELSE pc
           /\ wr' = IF res.exc = "none" THEN [arr |-> "v", kind |-> "fd", cells |-> res.cells]
                    ELSE NoWrite
    /\ UNCHANGED <<training, written, hist, params, u, p, un, vn, b, pn, n, q>>

\* lines 69-76, one statement per step; after line 76 the timestep is over
VelocityBoundary ==
    /\ Running
    /\ \E k \in DOMAIN VelocityBC :
        /\ pc = VelocityBC[k].line
        /\ LET s   == VelocityBC[k]
               res == velocity_bc(IF s.arr = "u" THEN u ELSE v, s)
           IN  /\ u' = IF s.arr = "u" THEN res.arr ELSE u
               /\ v' = IF s.arr = "v" THEN res.arr ELSE v
               /\ wr' = [arr |-> s.arr, kind |-> "bc", cells |-> res.cells]
        /\ pc' = IF k < Len(VelocityBC) THEN VelocityBC[k + 1].line ELSE 40
        /\ n' = IF k = Len(VelocityBC) THEN n + 1 ELSE n
    /\ hist' = IF n' = n + 1 THEN [hist EXCEPT !.update = @ + 1] ELSE hist
    /\ UNCHANGED <<training, written, params, p, un, vn, b, pn, q, err>>

\* line 78: return u, v, p
Return ==
    /\ Running /\ pc = 78
    /\ pc' = 0
    /\ wr' = NoWrite
    /\ UNCHANGED <<training, written, hist, params, u, v, p, un, vn, b, pn, n, q, err>>

Next ==
    \/ Enter \/ ForTimestep \/ CopyU \/ CopyV \/ BuildUpB
    \/ PoissonEnter \/ PoissonCopy \/ ForSweep \/ CopyP \/ SweepInterior \/ SweepBoundary \/ PoissonReturn
    \/ UpdateU \/ UpdateV \/ VelocityBoundary \/ Return

Spec == Init /\ [][Next]_vars

-----------------------------------------------------------------------------
(* The same run with the interior updates applied one cell at a time.      *)
(* The statement of lines 21-25, and the two statements of lines 47-67     *)
(* together, are replaced by single-cell writes taken in any order; each   *)
(* write evaluates the statement's right-hand side on the arrays as they   *)
(* are when it is applied and stores the one cell.  The next statement     *)
(* (the boundary writes) runs once every interior cell has been written.   *)

CellWrite(name, ij) == [arr |-> name, at |-> ij]

CellWrites(name, S) == {CellWrite(name, ij) : ij \in S}

\* the grids of the cell-by-cell runs: all have interior cells (the largest, with its
\* 2 x 2 interior, is run for one timestep of one sweep)
CellShapes == {<<3, 3>>, <<3, 4>>, <<4, 3>>, <<4, 4>>}

CellInit ==
    \E sh \in CellShapes, sc \in ValidScalars,
       t \in 1 .. MaxNt, it \in 1 .. MaxNit, k \in 0 .. MaxPat :
        /\ sh = <<4, 4>> => t = 1 /\ it = 1 /\ sc = <<2, 1, 2, 3, 5>>
        /\ ny = sh[1] /\ nx = sh[2] /\ nit = it /\ nt = t
        /\ dt = sc[1] /\ dx = sc[2] /\ dy = sc[3] /\ rho = sc[4] /\ nu = sc[5]
        /\ u = Field("u", sh[1], sh[2], k, 0)
        /\ v = Field("v", sh[1], sh[2], k, 1)
        /\ p = Field("p", sh[1], sh[2], k, 2)
        /\ un = Unbound /\ vn = Unbound /\ b = Unbound /\ pn = Unbound
        /\ n = 0 /\ q = 0
        /\ pc = 36
        /\ err = "none"
        /\ wr = NoWrite
        /\ hist = [build |-> 0, solve |-> 0, sweep |-> 0, update |-> 0]
        /\ written = {}
        /\ NotTraining

\* mutant of SweepCell: the cell's right-hand side read from p itself, where earlier
\* cell writes of the same sweep already are (a Gauss-Seidel sweep)
SweepCell_ReadsP ==
    /\ Running /\ pc = 21
    /\ LET res == poisson_interior(p, p, dx, dy, b)
       IN  /\ res.exc = "none"
           /\ \E ij \in res.cells :
                /\ CellWrite("p", ij) \notin written
                /\ p' = [p EXCEPT !.d[ij] = res.arr.d[ij]]
                /\ written' = written \cup {CellWrite("p", ij)}
                /\ wr' = [arr |-> "p", kind |-> "fd", cells |-> {ij}]
    /\ UNCHANGED <<training, hist, params, u, v, un, vn, b, pn, n, q, pc, err>>

\* lines 21-25 for one interior cell not yet written in this sweep
SweepCell ==
    /\ Running /\ pc = 21
    /\ LET res == poisson_interior(p, pn, dx, dy, b)
       IN  /\ res.exc = "none"
           /\ \E ij \in res.cells :
                /\ CellWrite("p", ij) \notin written
                /\ p' = [p EXCEPT !.d[ij] = res.arr.d[ij]]
                /\ written' = written \cup {CellWrite("p", ij)}
                /\ wr' = [arr |-> "p", kind |-> "fd", cells |-> {ij}]
    /\ UNCHANGED <<training, hist, params, u, v, un, vn, b, pn, n, q, pc, err>>

\* all interior cells of p are written: the boundary writes of lines 27-30 may start
SweepBarrier ==
    /\ Running /\ pc = 21
    /\ LET res == poisson_interior(p, pn, dx, dy, b)
       IN  res.exc = "none" /\ CellWrites("p", res.cells) \subseteq written
    /\ pc' = 27
    /\ written' = {}
    /\ wr' = NoWrite
    /\ UNCHANGED <<training, hist, params, u, v, p, un, vn, b, pn, n, q, err>>

\* lines 47-56 or lines 58-67 for one interior cell of u or of v not yet written in
\* this timestep
VelocityCell ==
    /\ Running /\ pc = 47
    /\ LET ru == update_u(u, un, vn, p, dt, dx, dy, rho, nu)
           rv == update_v(v, un, vn, p, dt, dx, dy, rho, nu)
       IN  /\ ru.exc = "none" /\ rv.exc = "none"
           /\ \/ \E ij \in ru.cells :
                    /\ CellWrite("u", ij) \notin written
                    /\ u' = [u EXCEPT !.d[ij] = ru.arr.d[ij]]
                    /\ v' = v
                    /\ written' = written \cup {CellWrite("u", ij)}
                    /\ wr' = [arr |-> "u", kind |-> "fd", cells |-> {ij}]
              \/ \E ij \in rv.cells :
                    /\ CellWrite("v", ij) \notin written
                    /\ v' = [v EXCEPT !.d[ij] = rv.arr.d[ij]]
                    /\ u' = u
                    /\ written' = written \cup {CellWrite("v", ij)}
                    /\ wr' = [arr |-> "v", kind |-> "fd", cells |-> {ij}]
    /\ UNCHANGED <<training, hist, params, p, un, vn, b, pn, n, q, pc, err>>

\* all interior cells of u and v are written: the boundary writes of lines 69-76 may
\* start
VelocityBarrier ==
    /\ Running /\ pc = 47
    /\ LET ru == update_u(u, un, vn, p, dt, dx, dy, rho, nu)
           rv == update_v(v, un, vn, p, dt, dx, dy, rho, nu)
       IN  /\ ru.exc = "none" /\ rv.exc = "none"
           /\ CellWrites("u", ru.cells) \cup CellWrites("v", rv.cells) \subseteq written
    /\ pc' = 69
    /\ written' = {}
    /\ wr' = NoWrite
    /\ UNCHANGED <<training, hist, params, u, v, p, un, vn, b, pn, n, q, err>>

CellNext ==
    \/ Enter \/ ForTimestep \/ CopyU \/ CopyV \/ BuildUpB
    \/ PoissonEnter \/ PoissonCopy \/ ForSweep \/ CopyP
    \/ SweepCell \/ SweepBarrier \/ SweepBoundary \/ PoissonReturn
    \/ VelocityCell \/ VelocityBarrier \/ VelocityBoundary \/ Return

CellSpec == CellInit /\ [][CellNext]_vars

-----------------------------------------------------------------------------
(* Vocabulary of the properties.                                           *)

Returned == pc = 0 /\ err = "none"

\* a timestep has just ended: the loop head after n >= 1 passes, or the return after them
AfterTimestep == Running /\ pc \in {40, 78, 0} /\ n >= 1

\* a sweep of pressure_poisson has just ended
AfterSweep == Running /\ pc = 19 /\ q >= 1

Boundary(A) == {ij \in Cells(A) : ij[1] \in {0, A.r - 1} \/ ij[2] \in {0, A.c - 1}}

Interior(A) == Cells(A) \ Boundary(A)

AllEq(A, S, x) == \A ij \in S : A.d[ij] = x

SameShape(A, B) == A.r = B.r /\ A.c = B.c

HasShape(A, r, c) == A.r = r /\ A.c = c

\* the caller's three fields have the shape of the module's grid
GridShaped == HasShape(u, ny, nx) /\ HasShape(v, ny, nx) /\ HasShape(p, ny, nx)

\* the array a name of the run denotes
ArrayOf(name) ==
    CASE name = "u" -> u [] name = "v" -> v [] name = "p" -> p [] name = "b" -> b

-----------------------------------------------------------------------------
(* C1: after every timestep the last row of u is 1, the first row, first   *)
(* column and last column of u are 0, and v is 0 on all four edges.        *)
(* As stated this fails at the two lid corners u[-1,0] and u[-1,-1], which *)
(* lie in the first and last column and hold 1 (line 72 runs after lines   *)
(* 70 and 71).                                                             *)

VZeroOnEdges == AllEq(v, Boundary(v), 0)

\* C1 as stated: after every timestep u[-1,:] is 1, u[0,:], u[:,0] and u[:,-1] are 0,
\* and v is 0 on all four edges.
C1_AsStated ==
    AfterTimestep =>
        /\ AllEq(u, Row(u, -1), 1)
        /\ AllEq(u, Row(u, 0) \cup Col(u, 0) \cup Col(u, -1), 0)
        /\ VZeroOnEdges

\* C1 amended: after every timestep the last row of u is 1 in every cell, the
\* first row and the cells of the first and last column outside the last row are 0,
\* and v is 0 on all four edges.
C1_LidAndWalls ==
    AfterTimestep =>
        /\ AllEq(u, Row(u, -1), 1)
        /\ AllEq(u, (Row(u, 0) \cup Col(u, 0) \cup Col(u, -1)) \ Row(u, -1), 0)
        /\ VZeroOnEdges

\* a second timestep has ended on a grid whose interior cells of u and v are not 0
C1_Witness ==
    /\ AfterTimestep /\ n = 2 /\ pc = 40
    /\ \E ij \in Interior(u) : u.d[ij] \notin {0, 1}
    /\ \E ij \in Interior(v) : v.d[ij] # 0
    /\ u.d[u.r - 1, 0] = 1

-----------------------------------------------------------------------------
(* C2: after every sweep of pressure_poisson all four pressure boundary    *)
(* conditions hold on every cell, corners included.                        *)
(* As stated this fails on a grid of two rows, where row 1 is the last row:*)
(* line 30 zeroes it after line 28 copied it into row 0.                   *)

PressureBCHold ==
    /\ AllEq(p, Row(p, -1), 0)
    /\ \A i \in 0 .. p.r - 1 : p.d[i, p.c - 1] = p.d[i, p.c - 2]
    /\ \A j \in 0 .. p.c - 1 : p.d[0, j] = p.d[1, j]
    /\ \A i \in 0 .. p.r - 1 : p.d[i, 0] = p.d[i, 1]

\* C2 as stated: after every sweep the four boundary conditions hold on every cell.
C2_AsStated == AfterSweep => PressureBCHold

\* C2 amended: after every sweep of pressure_poisson on a p of at least three rows,
\* all four pressure boundary conditions hold on every cell, corners included.
C2_PressureBoundary == AfterSweep /\ p.r >= 3 => PressureBCHold

\* a sweep has ended on a p with interior cells, and p is not uniform
C2_Witness ==
    /\ AfterSweep /\ p.r >= 3 /\ p.c >= 3
    /\ p.d[1, 1] \notin {0, NaN}
    /\ p.d[0, 0] = p.d[1, 1]
    /\ \E ij \in Cells(p) : p.d[ij] # p.d[1, 1]

-----------------------------------------------------------------------------
(* C3: cavity_flow performs exactly nt timesteps, each one source-term     *)
(* build, then one pressure solve of nit sweeps, then one velocity update  *)
(* with its boundary writes, in this order.                                *)
(* hist counts the completed builds, solves, sweeps and updates; the       *)
(* property fixes the counts at every statement of a run no exception has  *)
(* ended, and at the return.                                               *)

Counts(bu, so, sw, up) == hist = [build |-> bu, solve |-> so, sweep |-> sw, update |-> up]

\* C3: at every statement of a run no exception has ended, n timesteps are complete
\* (n <= nt), and the builds, solves, sweeps and velocity updates completed so far
\* are those of n whole timesteps plus the part of the current one that the order
\* build, solve (nit sweeps), update allows; at the return n = nt.
C3_TimestepSequence ==
    Running =>
        /\ n <= nt
        /\ pc \in {36, 40, 41, 42, 44} => Counts(n, n, n * nit, n)
        /\ pc \in {45, 17} => Counts(n + 1, n, n * nit, n)
        /\ pc \in {19, 20, 21, 27, 28, 29, 30, 32} =>
              /\ q <= nit
              /\ Counts(n + 1, n, n * nit + q, n)
        /\ pc = 32 => q = nit
        /\ pc \in {47, 58} \cup (69 .. 76) => Counts(n + 1, n + 1, (n + 1) * nit, n)
        /\ pc \in {78, 0} => n = nt /\ Counts(nt, nt, nt * nit, nt)

\* a run of two timesteps of two sweeps has returned
C3_Witness == Returned /\ nt = 2 /\ nit = 2 /\ hist.sweep = 4 /\ hist.update = 2

-----------------------------------------------------------------------------
(* C4: pressure_poisson returns after exactly nit sweeps, whatever p and b *)
(* hold: the return statement is reached with q = nit completed sweeps and *)
(* never more are run.                                                     *)

\* C4: inside pressure_poisson q <= nit sweeps are complete, a sweep is under way
\* only while q < nit, and the return statement is reached with q = nit.
C4_ExactlyNitSweeps ==
    Running /\ pc \in {19, 20, 21, 27, 28, 29, 30, 32} =>
        /\ q <= nit
        /\ pc = 32 => q = nit
        /\ pc \in {20, 21, 27, 28, 29, 30} => q < nit
        /\ hist.sweep = n * nit + q

\* pressure_poisson returns after two sweeps that changed p
C4_Witness == Running /\ pc = 32 /\ nit = 2 /\ q = 2 /\ \E ij \in Cells(p) : p.d[ij] # pn.d[ij]

-----------------------------------------------------------------------------
(* C5: with an invalid configuration (dx, dy or dt not positive, shapes    *)
(* mismatched, or nit <= 0) the solver fails before the first timestep     *)
(* starts and never returns fields computed from it.                       *)
(* The code validates nothing: no statement of lines 36-40 can raise, so   *)
(* every such run enters the loop body or returns.                         *)

InvalidConfig == dx <= 0 \/ dy <= 0 \/ dt <= 0 \/ nit <= 0 \/ ~GridShaped

\* C5: a run with an invalid configuration never gets past the loop head of line 40
\* and never returns.
C5_FailsBeforeFirstTimestep == InvalidConfig => pc \in {36, 40} /\ ~Returned

-----------------------------------------------------------------------------
(* C6: the u, v, p that cavity_flow returns are a function of its inputs.  *)
(* The statements are functions of what they read, and the one thing a run *)
(* can read that its inputs do not fix is the memory np.empty_like hands   *)
(* out (un, vn, pn).  Uninit marks it and is passed on by every operation, *)
(* so: no cell of the returned u, v, p is Uninit.                          *)

Defined(A) == \A ij \in Cells(A) : A.d[ij] # Uninit

\* C6: every cell of the u, v, p that cavity_flow returns is computed from the
\* call's inputs alone: none holds, or was computed from, uninitialised memory.
C6_ResultFromInputsOnly == Returned => Defined(u) /\ Defined(v) /\ Defined(p)

\* a run of two timesteps of two sweeps has returned fields with non-zero interiors,
\* after un, vn and pn were allocated uninitialised and then read
C6_Witness ==
    /\ Returned /\ nt = 2 /\ nit = 2
    /\ \E ij \in Interior(u) : u.d[ij] \notin {0, 1, NaN}
    /\ \E ij \in Interior(v) : v.d[ij] \notin {0, NaN}
    /\ \E ij \in Interior(p) : p.d[ij] \notin {0, NaN}
    /\ un.ok /\ vn.ok

-----------------------------------------------------------------------------
(* C7: in every state of a run u, v, p and b have one and the same shape   *)
(* ny x nx, the shape of the caller's fields, and no kernel changes it.    *)
(* As stated this fails when the caller's fields do not have the shape of  *)
(* the module globals: line 38 allocates b from ny and nx, not from u.     *)

\* C7 as stated: once b is allocated, u, v, p and b have one and the same shape.
C7_AsStated ==
    b.ok => SameShape(u, v) /\ SameShape(v, p) /\ SameShape(p, b) /\ HasShape(b, ny, nx)

ShapeKept(A, B) == A.ok => B.ok /\ SameShape(A, B)

\* C7 amended: in every state of a run u, v and p keep the shapes the caller passed
\* in and b has the shape ny x nx of the module globals; no kernel changes the shape
\* of any of them, and the four shapes are one and the same whenever the caller's
\* fields have the shape ny x nx.
C7_ShapesPreserved ==
    [][ /\ ShapeKept(u, u') /\ ShapeKept(v, v') /\ ShapeKept(p, p') /\ ShapeKept(b, b')
        /\ b'.ok => HasShape(b', ny, nx)
        /\ b'.ok /\ GridShaped => SameShape(u', v') /\ SameShape(v', p') /\ SameShape(p', b')
      ]_vars

\* the three kernels have run on a grid that is not square
C7_Witness ==
    /\ Running /\ pc = 40 /\ n = 1 /\ nit >= 1
    /\ GridShaped /\ ny = 3 /\ nx = 4 /\ HasShape(b, 3, 4) /\ HasShape(u, 3, 4)

-----------------------------------------------------------------------------
(* C8: a run fails only if the input shapes are inconsistent: whenever u,  *)
(* v and p have the same shape the run completes all nt timesteps.         *)
(* As stated this fails for dt = 0 (ZeroDivisionError in line 5), dx = 0,  *)
(* dy = 0 or rho = 0 (lines 52-55, 63), and for fields that agree with one *)
(* another but not with the module's ny, nx (ValueError in line 5).        *)

\* C8 as stated: a run whose u, v and p have the same shape raises no exception.
C8_AsStated == SameShape(u, v) /\ SameShape(v, p) => err = "none"

ValidCall == GridShaped /\ dt # 0 /\ dx # 0 /\ dy # 0 /\ rho # 0

\* C8 amended: whenever u, v and p all have the shape ny x nx of the module globals
\* (at least 2 x 2) and dt, dx, dy and rho are non-zero, the run completes all nt
\* timesteps without an error.  In every state of such a run no exception has been
\* raised, the loop counters are within their ranges (every statement but the return
\* has a successor, so the run goes on to the return), and at the return all nt
\* timesteps are done.
C8_ValidCallCompletes ==
    ValidCall =>
        /\ err = "none"
        /\ n <= nt /\ q <= nit
        /\ pc = 0 => n = nt /\ hist.update = nt /\ hist.build = nt /\ hist.solve = nt

\* a valid call of two timesteps has returned
C8_Witness == ValidCall /\ Returned /\ nt = 2 /\ nit >= 1 /\ ny >= 3 /\ nx >= 3 /\ dx < 0

-----------------------------------------------------------------------------
(* C9: every finite-difference update (lines 5, 21, 47, 58) writes only    *)
(* cells of [1:-1, 1:-1]; boundary cells are written by boundary-condition *)
(* assignments (lines 27-30, 69-76) only, and these write only boundary    *)
(* cells.  wr names the cells a statement's target slice covers; the       *)
(* property also ties it to the arrays: a cell outside wr keeps its value. *)

Kept(A, B, S) == A.ok /\ B.ok => \A ij \in Cells(A) \ S : B.d[ij] = A.d[ij]

WrittenIn(name) == IF wr'.arr = name THEN wr'.cells ELSE {}

\* C9: a finite-difference statement writes interior cells only, a boundary-condition
\* statement writes boundary cells of p, u or v only, and every cell of u, v, p, b
\* outside the statement's target slice keeps its value.
C9_InteriorAndBoundaryWrites ==
    [][ /\ wr'.kind = "fd" => wr'.arr \in {"b", "p", "u", "v"}
                              /\ wr'.cells \subseteq Interior(ArrayOf(wr'.arr))
        /\ wr'.kind = "bc" => wr'.arr \in {"p", "u", "v"}
                              /\ wr'.cells \subseteq Boundary(ArrayOf(wr'.arr))
        /\ wr'.kind = "none" => wr'.cells = {}
        /\ Kept(u, u', WrittenIn("u")) /\ Kept(v, v', WrittenIn("v"))
        /\ Kept(p, p', WrittenIn("p")) /\ Kept(b, b', WrittenIn("b"))
      ]_vars

\* a finite-difference update has just written four interior cells of u, with values
\* that differ from the boundary's
C9_Witness ==
    /\ wr.kind = "fd" /\ wr.arr = "u" /\ Cardinality(wr.cells) = 4
    /\ \E ij \in wr.cells : u.d[ij] \notin {0, 1, NaN}

-----------------------------------------------------------------------------
(* C10: build_up_b changes only interior cells of b: every boundary cell   *)
(* of b keeps its value, and u, v and the scalars are unchanged.           *)

\* C10: the step of line 44 leaves every boundary cell of b, the arrays u and v and
\* all scalars as they were.
C10_BuildUpBFrame ==
    [][ pc = 44 =>
          /\ b'.ok /\ SameShape(b, b')
          /\ \A ij \in Boundary(b) : b'.d[ij] = b.d[ij]
          /\ u' = u /\ v' = v /\ params' = params
      ]_vars

\* build_up_b has written a non-zero source term into the interior of b
C10_Witness ==
    /\ Running /\ pc = 45 /\ wr.arr = "b"
    /\ \E ij \in Interior(b) : b.d[ij] \notin {0, NaN}
    /\ AllEq(b, Boundary(b), 0)

-----------------------------------------------------------------------------
(* C11: after every timestep the value of a boundary cell of u or v        *)
(* depends on the cell's position only.  Two runs agree on it whatever     *)
(* their fields, p and scalars are, if in every run it is the value a      *)
(* function of the position alone gives: 1 on the last row of u, 0 on the  *)
(* other edges of u and on all edges of v.                                 *)

\* what lines 69-76 leave at position ij of the edge of an r x c array u
LidPolicy(r, ij) == IF ij[1] = r - 1 THEN 1 ELSE 0

\* C11: after every timestep every boundary cell of u holds the value its position
\* fixes (1 on the last row, 0 elsewhere) and every boundary cell of v holds 0,
\* whatever the initial fields, p, dt, dx, dy, rho and nu of the run are.
C11_BoundaryByPositionOnly ==
    AfterTimestep =>
        /\ \A ij \in Boundary(u) : u.d[ij] = LidPolicy(u.r, ij)
        /\ \A ij \in Boundary(v) : v.d[ij] = 0

\* a first timestep has ended in a run that started from non-zero fields (the interior
\* of u is not what zero fields give) with scalars other than 1
C11_Witness ==
    /\ AfterTimestep /\ n = 1 /\ dt = 2 /\ rho = 3 /\ nu = 5
    /\ \E ij \in Interior(u) : u.d[ij] \notin {0, 1, NaN}
    /\ u.d[u.r - 1, u.c - 1] = 1 /\ u.d[0, 0] = 0

-----------------------------------------------------------------------------
(* C12: the pressure a timestep inherits is read only as the initial       *)
(* iterate of that timestep's solve; the velocity update reads the         *)
(* pressure the solve returned and never writes p.                         *)
(* p is written by the statements of a sweep (lines 21-30) and by no       *)
(* other: from the return of one solve to the first sweep of the next, p   *)
(* is the array the solve returned.  So the snapshot the first sweep reads *)
(* is the inherited pressure, and the p lines 52 and 63 read is the one    *)
(* this timestep's solve returned, after all its nit sweeps.               *)

\* the statements of the velocity update: lines 47-67 and 69-76
InVelocityUpdate == pc \in {47, 58} \cup (69 .. 76)

\* C12: only the statements of a Poisson sweep change p (the return of the solve, the
\* velocity update and the statements before the solve leave it as it is); every
\* sweep starts from a snapshot equal to p; and the velocity update runs after this
\* timestep's solve has returned, all nit sweeps done.
C12_PressureDataFlow ==
    [][ /\ p' # p => pc \in {21, 27, 28, 29, 30}
        /\ InVelocityUpdate => p' = p
        /\ pc' = 21 => pn'.d = p'.d /\ pn'.id # p'.id
        /\ InVelocityUpdate /\ Running => hist.solve = n + 1 /\ hist.sweep = (n + 1) * nit
      ]_vars

\* the u update of a second timestep has just read a pressure that two sweeps of this
\* timestep's solve produced
C12_Witness ==
    /\ Running /\ pc = 58 /\ n = 1 /\ nit = 2 /\ wr.arr = "u" /\ hist.solve = 2
    /\ \E ij \in Interior(p) : p.d[ij] \notin {0, NaN}
    /\ \E ij \in Interior(u) : u.d[ij] \notin {0, NaN}

-----------------------------------------------------------------------------
(* C13: with b zero everywhere and p uniform and satisfying the four       *)
(* pressure boundary conditions, one sweep leaves every cell of p as it    *)
(* was.  When a sweep has ended, pn still is the snapshot line 20 took of  *)
(* p before the sweep, so the sweep's input is pn and its output is p.     *)

Uniform(A) == \A ij \in Cells(A) : A.d[ij] = A.d[0, 0]

\* the four conditions of lines 27-30 on an array A
PressureBCOn(A) ==
    /\ AllEq(A, Row(A, -1), 0)
    /\ \A i \in 0 .. A.r - 1 : A.d[i, A.c - 1] = A.d[i, A.c - 2] /\ A.d[i, 0] = A.d[i, 1]
    /\ \A j \in 0 .. A.c - 1 : A.d[0, j] = A.d[1, j]

\* C13: if b is zero everywhere and the p a sweep started from (pn) is uniform and
\* satisfies the four pressure boundary conditions, every cell of p after the sweep
\* equals the cell before it.
C13_UniformFixedPoint ==
    AfterSweep /\ b.ok /\ AllEq(b, Cells(b), 0) /\ Uniform(pn) /\ PressureBCOn(pn)
        => p.d = pn.d

\* a sweep has ended that started from such a p, with b zero everywhere, on a grid
\* with interior cells and with dx # dy
C13_Witness ==
    /\ AfterSweep /\ b.ok /\ AllEq(b, Cells(b), 0) /\ Uniform(pn) /\ PressureBCOn(pn)
    /\ p.r >= 3 /\ p.c >= 3 /\ dx = 1 /\ dy = 2 /\ wr.arr = "p"

-----------------------------------------------------------------------------
(* C14: the kernels overwrite the arrays they are given, and the u, v, p   *)
(* cavity_flow returns are the caller's own arrays.  The field id of an    *)
(* array is the object it is: "u", "v", "p" are the caller's arrays, "b"   *)
(* the array line 38 allocates, and every copy or temporary has another    *)
(* id.  A statement that rebinds a name to a new array changes the id; one *)
(* that writes into the array keeps it.                                    *)

\* C14: in every state of a run the names u, v and p denote the caller's arrays and b
\* denotes the array line 38 allocated (build_up_b and pressure_poisson write into the
\* arrays they are given and return them; the snapshots un, vn, pn are other objects);
\* so the u, v, p cavity_flow returns are the caller's arrays.
C14_InPlace ==
    /\ u.id = "u" /\ v.id = "v" /\ p.id = "p"
    /\ b.ok => b.id = "b"
    /\ un.ok => un.id = "un"
    /\ vn.ok => vn.id = "vn"
    /\ pn.ok => pn.id = "pn"

\* a run of two timesteps that started from non-zero fields (u[0, 0] was 1) has
\* returned: the caller's u now holds 0 there and the lid value in its last row
C14_Witness ==
    /\ Returned /\ nt = 2 /\ nit >= 1 /\ u.id = "u"
    /\ \E ij \in Interior(p) : p.d[ij] \notin {0, NaN}
    /\ \E ij \in Interior(v) : v.d[ij] \notin {0, NaN}
    /\ u.d[0, 0] = 0 /\ u.d[u.r - 1, 0] = 1

-----------------------------------------------------------------------------
(* C15: in each timestep the new interiors of u and of v are both computed *)
(* from the snapshots un and vn taken at the start of the timestep; what   *)
(* line 47 wrote into u has no effect on the new v; un and vn are not      *)
(* written between the snapshot and the last read.                         *)

\* the statements from the snapshots (lines 41-42) to their last read (line 58)
SnapshotsLive == pc \in {44, 45, 17, 19, 20, 21, 27, 28, 29, 30, 32, 47, 58}

\* C15: from the snapshots to the v update un and vn are not written; u and v are not
\* written before the u update, so there the snapshots hold the fields of the start
\* of the timestep; and the arrays the u update and the v update leave are the
\* updates' formulas evaluated on un and vn (with p and the scalars), whatever u holds.
C15_UpdatesReadSnapshots ==
    [][ /\ SnapshotsLive => un' = un /\ vn' = vn
        /\ pc = 42 => un' = un
        /\ SnapshotsLive /\ pc \notin {47, 58} => u' = u /\ v' = v
        /\ pc' = 47 /\ Running => un'.d = u'.d /\ vn'.d = v'.d
        /\ pc = 47 => u' = update_u(u, un, vn, p, dt, dx, dy, rho, nu).arr /\ v' = v
        /\ pc = 58 => v' = update_v(v, un, vn, p, dt, dx, dy, rho, nu).arr /\ u' = u
      ]_vars

\* the v update has just run after the u update changed the interior of u: u differs
\* from the snapshot un, and v from vn
C15_Witness ==
    /\ Running /\ pc = 69 /\ wr.arr = "v" /\ wr.kind = "fd"
    /\ \E ij \in Interior(u) : u.d[ij] # un.d[ij] /\ u.d[ij] # NaN /\ un.d[ij] # 0
    /\ \E ij \in Interior(v) : v.d[ij] # vn.d[ij] /\ v.d[ij] # NaN

-----------------------------------------------------------------------------
(* C16: in each sweep every interior cell p[i,j] is set to                 *)
(*   ((pn[i,j+1] + pn[i,j-1]) * dy^2 + (pn[i+1,j] + pn[i-1,j]) * dx^2      *)
(*     - dx^2 * dy^2 * b[i,j]) / (2 * (dx^2 + dy^2))                       *)
(* with pn the copy of p taken at the start of that sweep.                 *)
(* The source computes it as a difference of two quotients, on whole       *)
(* slices; the claim's formula is evaluated here cell by cell, on arrays   *)
(* p and b of one shape (the grid of the specification).                   *)

\* the claim's formula at the interior cell ij
PoissonCell(pn_, b_, dx_, dy_, ij) ==
    LET i == ij[1]
        j == ij[2]
    IN  VDiv(VSub(VAdd(VMul(VAdd(pn_.d[i, j + 1], pn_.d[i, j - 1]), F(dy_ * dy_)),
                       VMul(VAdd(pn_.d[i + 1, j], pn_.d[i - 1, j]), F(dx_ * dx_))),
                  VMul(F(dx_ * dx_ * dy_ * dy_), b_.d[i, j])),
             F(2 * (dx_ * dx_ + dy_ * dy_)))

-----------------------------------------------------------------------------
(* C17: build_up_b sets every interior cell b[i,j] to                      *)
(*   rho * ((1/dt) * (dudx + dvdy) - dudx^2 - 2 * dudy * dvdx - dvdy^2)    *)
(* with the centred differences                                            *)
(*   dudx = (u[i,j+1] - u[i,j-1]) / (2 dx), dudy = (u[i+1,j] - u[i-1,j]) / (2 dy), *)
(*   dvdx = (v[i,j+1] - v[i,j-1]) / (2 dx), dvdy = (v[i+1,j] - v[i-1,j]) / (2 dy). *)
(* The claim's formula is evaluated cell by cell and compared with what    *)
(* the statement of lines 5-11 wrote.                                      *)

\* centred differences of A at ij, along x (columns) and along y (rows)
CentredX(A, ij, dx_) == VDiv(VSub(A.d[ij[1], ij[2] + 1], A.d[ij[1], ij[2] - 1]), F(2 * dx_))

CentredY(A, ij, dy_) == VDiv(VSub(A.d[ij[1] + 1, ij[2]], A.d[ij[1] - 1, ij[2]]), F(2 * dy_))

\* the claim's formula at the interior cell ij (dt_ # 0)
SourceCell(rho_, dt_, u_, v_, dx_, dy_, ij) ==
    LET dudx == CentredX(u_, ij, dx_)
        dudy == CentredY(u_, ij, dy_)
        dvdx == CentredX(v_, ij, dx_)
        dvdy == CentredY(v_, ij, dy_)
    IN  VMul(F(rho_),
             VSub(VSub(VSub(VMul(SDiv(1, dt_), VAdd(dudx, dvdy)),
                            VMul(dudx, dudx)),
                       VMul(F(2), VMul(dudy, dvdx))),
                  VMul(dvdy, dvdy)))

\* C17: when the statement of lines 5-11 completes, every interior cell of b holds the
\* value of the claim's formula on u, v, rho, dt, dx, dy, for all the fields and
\* scalars of the model's runs.
C17_SourceTermCell ==
    [][ pc = 44 /\ err' = "none" /\ SameShape(u, b) /\ SameShape(v, b) =>
          \A ij \in Interior(b) : b'.d[ij] = SourceCell(rho, dt, u, v, dx, dy, ij)
      ]_vars

\* build_up_b has just written a source term in which the cross term, the squares and
\* the divergence term are all present: rho, dt, dx, dy are not all 1 and u, v are
\* not uniform in either direction
C17_Witness ==
    /\ Running /\ pc = 45 /\ wr.arr = "b" /\ wr.kind = "fd" /\ Cardinality(wr.cells) >= 2
    /\ dt = 2 /\ dx = 1 /\ dy = 2 /\ rho = 3
    /\ \E ij \in Interior(b) :
          /\ b.d[ij] \notin {0, NaN}
          /\ CentredX(u, ij, dx) \notin {0, NaN} /\ CentredY(u, ij, dy) \notin {0, NaN}
          /\ CentredX(v, ij, dx) \notin {0, NaN} /\ CentredY(v, ij, dy) \notin {0, NaN}

-----------------------------------------------------------------------------
(* C18: the interior update of v has the form of that of u with the roles  *)
(* swapped.  The field w advanced (un for u, vn for v) is advected by un   *)
(* in x and by vn in y with backward differences of w and diffused with    *)
(* centred second differences of w; the pressure term of u is              *)
(* dt/(2 rho dx) * (p[i,j+1] - p[i,j-1]), that of v is                     *)
(* dt/(2 rho dy) * (p[i+1,j] - p[i-1,j]).                                  *)

\* the common form at the interior cell ij, for the pressure term grad
MomentumCell(w, un_, vn_, grad, ij, dt_, dx_, dy_, nu_) ==
    LET i   == ij[1]
        j   == ij[2]
        c   == w.d[i, j]
        ax  == VMul(VDiv(VMul(un_.d[i, j], F(dt_)), F(dx_)), VSub(c, w.d[i, j - 1]))
        ay  == VMul(VDiv(VMul(vn_.d[i, j], F(dt_)), F(dy_)), VSub(c, w.d[i - 1, j]))
        dxx == VAdd(VSub(w.d[i, j + 1], VMul(F(2), c)), w.d[i, j - 1])
        dyy == VAdd(VSub(w.d[i + 1, j], VMul(F(2), c)), w.d[i - 1, j])
    IN  VAdd(VSub(VSub(VSub(c, ax), ay), grad),
             VMul(F(nu_), VAdd(VMul(SDiv(dt_, dx_ * dx_), dxx), VMul(SDiv(dt_, dy_ * dy_), dyy))))

\* dt/(2 rho dx) * (p[i,j+1] - p[i,j-1])
PressureTermX(p_, ij, dt_, rho_, dx_) ==
    VMul(SDiv(dt_, 2 * rho_ * dx_), VSub(p_.d[ij[1], ij[2] + 1], p_.d[ij[1], ij[2] - 1]))

\* dt/(2 rho dy) * (p[i+1,j] - p[i-1,j])
PressureTermY(p_, ij, dt_, rho_, dy_) ==
    VMul(SDiv(dt_, 2 * rho_ * dy_), VSub(p_.d[ij[1] + 1, ij[2]], p_.d[ij[1] - 1, ij[2]]))

\* C18: when lines 47-56 complete, every interior cell of u holds the common form with
\* w = un and the x-direction pressure term; when lines 58-67 complete, every interior
\* cell of v holds the same form with w = vn and the y-direction pressure term.
C18_SwappedRoles ==
    [][ /\ pc = 47 /\ err' = "none" /\ SameShape(u, p) /\ SameShape(v, p) =>
              \A ij \in Interior(u) :
                  u'.d[ij] = MomentumCell(un, un, vn, PressureTermX(p, ij, dt, rho, dx),
                                          ij, dt, dx, dy, nu)
        /\ pc = 58 /\ err' = "none" /\ SameShape(u, p) /\ SameShape(v, p) =>
              \A ij \in Interior(v) :
                  v'.d[ij] = MomentumCell(vn, un, vn, PressureTermY(p, ij, dt, rho, dy),
                                          ij, dt, dx, dy, nu)
      ]_vars

\* the v update has just run with dx # dy on fields whose pressure gradients along x
\* and along y differ at some interior cell
C18_Witness ==
    /\ Running /\ pc = 69 /\ wr.arr = "v" /\ wr.kind = "fd" /\ SameShape(v, p)
    /\ dt = 2 /\ dx = 1 /\ dy = 2 /\ rho = 3 /\ nu = 5
    /\ \E ij \in Interior(v) :
          /\ v.d[ij] \notin {0, NaN}
          /\ PressureTermY(p, ij, dt, rho, dy) \notin {0, NaN}
          /\ PressureTermY(p, ij, dt, rho, dy) # PressureTermX(p, ij, dt, rho, dx)
          /\ un.d[ij] # vn.d[ij]

-----------------------------------------------------------------------------
(* C19: within one Poisson sweep, and within one timestep's velocity       *)
(* update, the interior cell updates applied one cell at a time in any     *)
(* order or interleaving give the arrays of the whole-array update, the    *)
(* interior writes being finished before the boundary writes start.        *)
(* Checked on the cell-by-cell runs: when the single-cell writes start, p  *)
(* equals the snapshot pn (u equals un, v equals vn), so the whole-array   *)
(* statement's result is the statement applied to the snapshot.            *)

\* what the whole-array statements of lines 21-25, 47-56, 58-67 give from the arrays
\* at the start of the statement
WholeSweep == poisson_interior([p EXCEPT !.d = pn.d], pn, dx, dy, b).arr

WholeU == update_u([u EXCEPT !.d = un.d], un, vn, p, dt, dx, dy, rho, nu).arr

WholeV == update_v([v EXCEPT !.d = vn.d], un, vn, p, dt, dx, dy, rho, nu).arr

\* A holds the whole-array result W in the cells written so far and the snapshot S in
\* all others
PartlyUpdated(name, A, W, S) ==
    \A ij \in Cells(A) :
        A.d[ij] = IF CellWrite(name, ij) \in written THEN W.d[ij] ELSE S.d[ij]

\* C19: whatever cells have been written so far and in whatever order, each written
\* cell of p (of u, of v) holds the value the whole-array statement gives it and the
\* others hold the snapshot's; so once all interior cells are written, the arrays are
\* those of the whole-array update.
C19_AnyOrderSameArrays ==
    /\ Running /\ pc = 21 => PartlyUpdated("p", p, WholeSweep, pn)
    /\ Running /\ pc = 47 => PartlyUpdated("u", u, WholeU, un) /\ PartlyUpdated("v", v, WholeV, vn)
    /\ pc \notin {21, 47} => written = {}

\* on a grid with four interior cells a cell-by-cell velocity update is half done: an
\* interior cell of u that changes is written while its left neighbour is not yet,
\* a cell of v is written, and cells of u and v remain
C19_Witness ==
    /\ Running /\ pc = 47 /\ ny = 4 /\ nx = 4 /\ Cardinality(written) = 3
    /\ CellWrite("u", <<1, 2>>) \in written /\ CellWrite("u", <<1, 1>>) \notin written
    /\ CellWrite("v", <<2, 2>>) \in written
    /\ u.d[1, 2] # un.d[1, 2] /\ v.d[2, 2] # vn.d[2, 2]
    /\ hist.sweep >= 1

-----------------------------------------------------------------------------
(* C20: the p that pressure_poisson returns does not depend on the         *)
(* boundary cells of b.  Checked on calls of pressure_poisson alone, with  *)
(* p, the interior of b, dx, dy and nit drawn from bounded sets and every  *)
(* boundary cell of b holding Uninit, the value that stands for any double *)
(* and that every operation reading it passes on: a p free of it was       *)
(* computed without reading a boundary cell of b, and so is the same       *)
(* whatever those cells hold.                                              *)

\* A with its boundary cells holding an unknown value
BoundaryUnknown(A) ==
    [A EXCEPT !.d = [ij \in Cells(A) |-> IF ij \in Boundary(A) THEN Uninit ELSE A.d[ij]]]

\* <<dx, dy>> of the calls
PoissonSteps == {<<1, 1>>, <<1, 2>>, <<2, 1>>, <<0, 1>>, <<1, 0>>, <<0, 0>>, <<-1, 2>>}

\* a call pressure_poisson(p, dx, dy, b) (line 45) with p and b of one shape
PoissonInit ==
    \E r \in Dims, c \in Dims, st \in PoissonSteps, it \in 0 .. MaxNit,
       k \in 0 .. MaxPat, kb \in 0 .. MaxPat :
        /\ ny = r /\ nx = c /\ nit = it /\ nt = 1
        /\ dt = 1 /\ dx = st[1] /\ dy = st[2] /\ rho = 1 /\ nu = 1
        /\ u = Zeros("u", r, c)
        /\ v = Zeros("v", r, c)
        /\ p = Field("p", r, c, k, 2)
        /\ b = BoundaryUnknown(Field("b", r, c, kb, 3))
        /\ un = Unbound /\ vn = Unbound /\ pn = Unbound
        /\ n = 0 /\ q = 0
        /\ pc = 45
        /\ err = "none"
        /\ wr = NoWrite
        /\ hist = [build |-> 0, solve |-> 0, sweep |-> 0, update |-> 0]
        /\ written = {}
        /\ NotTraining

PoissonNext ==
    \/ PoissonEnter \/ PoissonCopy \/ ForSweep \/ CopyP
    \/ SweepInterior \/ SweepBoundary \/ PoissonReturn

PoissonSpec == PoissonInit /\ [][PoissonNext]_vars

\* C20: in a call of pressure_poisson whose b has unknown boundary cells, no cell of p
\* ever is, or is computed from, a boundary cell of b; so the returned p is fixed by
\* p, dx, dy, nit and the interior of b.
C20_BoundaryOfBNotRead ==
    /\ Defined(p)
    /\ \A ij \in Boundary(b) : b.d[ij] = Uninit

\* a call of two sweeps has returned a p whose interior the source term entered, on a
\* grid with four interior cells
C20_Witness ==
    /\ Running /\ pc = 47 /\ nit = 2 /\ hist.sweep = 2 /\ hist.solve = 1
    /\ p.r = 4 /\ p.c = 4 /\ dx = 1 /\ dy = 2
    /\ \E ij \in Interior(b) : b.d[ij] \notin {0, NaN}
    /\ \E ij \in Interior(p) : p.d[ij] \notin {0, NaN, Uninit}
    /\ b.d[0, 1] = Uninit

-----------------------------------------------------------------------------
(* C21: after every timestep the two corner cells of the lid row, u[-1,0]  *)
(* and u[-1,-1], hold 1: line 72 (u[-1,:] = 1) runs after lines 70 and 71  *)
(* (u[:,0] = 0, u[:,-1] = 0) and wins where they overlap.                  *)

LidCorners == {<<u.r - 1, 0>>, <<u.r - 1, u.c - 1>>}

\* C21: after every timestep u[-1,0] and u[-1,-1] are 1; just before line 72 runs the
\* side-wall assignments have left 0 in both, and line 72 is the statement that
\* writes 1 there.
C21_LidWinsCorners ==
    /\ AfterTimestep => AllEq(u, LidCorners, 1)
    /\ Running /\ pc = 72 => AllEq(u, LidCorners, 0)
    /\ Running /\ pc \in 73 .. 76 => AllEq(u, LidCorners, 1)

\* line 72 has just written the lid row of a grid of at least three rows and columns
\* in a second timestep: the corners are 1 and the wall cells above them are 0
C21_Witness ==
    /\ Running /\ pc = 73 /\ n = 1 /\ wr.arr = "u" /\ wr.cells = Row(u, -1)
    /\ u.r >= 3 /\ u.c >= 3
    /\ AllEq(u, LidCorners, 1)
    /\ u.d[u.r - 2, 0] = 0 /\ u.d[u.r - 2, u.c - 1] = 0

-----------------------------------------------------------------------------
(* C22: started from u, v and p all zero, the first timestep builds an     *)
(* all-zero b and leaves p and the interiors of u and v all zero; after it *)
(* u is zero except the last row, which is 1; so the lid first affects b   *)
(* and p in the second timestep.                                           *)
(* The last part fails.  With u zero except the lid row and v zero, every  *)
(* term of lines 5-11 is zero in the interior: du/dx and dv/dy are zero,   *)
(* and the one non-zero difference, du/dy next to the lid, is multiplied   *)
(* by dv/dx = 0.  The second timestep again builds an all-zero b and       *)
(* leaves p all zero; the lid enters the interior of u only (line 55).     *)

AllZero(A) == AllEq(A, Cells(A), 0)

\* u as the first timestep of such a run leaves it: 1 on the last row, 0 elsewhere
LidOnly(A) == \A ij \in Cells(A) : A.d[ij] = LidPolicy(A.r, ij)

\* the first timestep of a valid run whose fields were passed in all zero
ZeroRunFirst ==
    /\ ValidCall /\ Running /\ n = 0
    /\ AllZero(v) /\ AllZero(p) /\ (b.ok => AllZero(b))
    /\ IF pc \in 73 .. 76 THEN LidOnly(u) ELSE AllZero(u)

\* the second timestep of such a run; from line 58 on the interior of u is what the
\* u update wrote
ZeroRunSecond ==
    /\ ValidCall /\ Running /\ n = 1
    /\ AllZero(v) /\ AllZero(p) /\ AllZero(b)
    /\ pc \in {40, 41, 42, 44, 45, 17, 19, 20, 21, 27, 28, 29, 30, 32, 47} => LidOnly(u)

\* C22 as stated, its last part: in the second timestep of such a run the source term
\* that build_up_b has just built is not all zero.
C22_AsStated ==
    ValidCall /\ Running /\ n = 1 /\ pc = 45 /\ LidOnly(u) /\ AllZero(v) /\ Interior(b) # {}
        => ~AllZero(b)

\* C22 amended: started from u, v and p all zero, the first timestep builds an
\* all-zero b and leaves p all zero and the interiors of u and v all zero; after it u
\* is zero except the last row, which is 1; the second timestep again builds an
\* all-zero b and leaves p and v all zero, the lid entering the interior of u only.
C22_ZeroStart ==
    [][ /\ ZeroRunFirst => ZeroRunFirst' \/ ZeroRunSecond'
        /\ ZeroRunSecond /\ n' = 1 => ZeroRunSecond'
      ]_vars

\* in the second timestep of such a run on a grid of four columns the u update has
\* changed the interior of u next to the lid, while b and p are all zero
C22_Witness ==
    /\ ZeroRunSecond /\ pc = 58 /\ u.r = 4 /\ u.c = 4 /\ nit = 2 /\ dt = 2 /\ nu = 5
    /\ u.d[2, 1] \notin {0, 1, NaN} /\ u.d[1, 1] = 0
    /\ AllZero(b) /\ AllZero(p)

-----------------------------------------------------------------------------
(* C23: with nt = 0 cavity_flow returns u, v and p exactly as passed in:   *)
(* no cell is written and the velocity boundary conditions are not imposed *)
(* on the returned fields.                                                 *)

\* C23: in a run with nt = 0 no statement changes u, v or p or writes a cell of any
\* array, the only statements run are lines 36-38, the loop head and the return, and
\* no exception is raised.
C23_NoTimestepNoWrite ==
    [][ nt = 0 =>
          /\ u' = u /\ v' = v /\ p' = p
          /\ wr' = NoWrite
          /\ pc \in {36, 40, 78} /\ pc' \in {40, 78, 0}
          /\ err' = "none" /\ hist' = hist /\ n' = 0
      ]_vars

\* a run with nt = 0 has returned non-zero fields on which the boundary conditions do
\* not hold: the last row of u is not 1 and the edges of v are not 0
C23_Witness ==
    /\ Returned /\ nt = 0 /\ n = 0 /\ hist.build = 0
    /\ u.d[u.r - 1, 0] # 1 /\ u.d[0, 0] # 0
    /\ v.d[0, 0] # 0 /\ p.d[p.r - 1, 0] # 0

-----------------------------------------------------------------------------
(* C24: build_up_b and pressure_poisson never write u or v, so when the    *)
(* velocity update starts the snapshots un and vn are cell for cell equal  *)
(* to u and v, and the source term was built from the velocities the       *)
(* velocity update reads.                                                  *)

\* the statements of the calls of lines 44 and 45
InKernels == pc \in {44, 45, 17, 19, 20, 21, 27, 28, 29, 30, 32}

\* C24: no statement of build_up_b or pressure_poisson changes u or v; when line 47 is
\* reached un and vn are other arrays than u and v with the same cells; and b there
\* is the source term of un and vn: building it again from the snapshots gives b.
C24_KernelsLeaveVelocity ==
    [][ /\ InKernels => u' = u /\ v' = v
        /\ pc' = 47 /\ err' = "none" =>
              /\ un'.d = u'.d /\ vn'.d = v'.d
              /\ un'.id # u'.id /\ vn'.id # v'.id
              /\ build_up_b(b', rho, dt, un', vn', dx, dy).arr = b'
      ]_vars

\* the velocity update of a second timestep is about to start after two sweeps, with
\* non-uniform velocities and a non-zero source term
C24_Witness ==
    /\ Running /\ pc = 47 /\ n = 1 /\ nit = 2 /\ dx = 1 /\ dy = 2
    /\ un.d = u.d /\ vn.d = v.d
    /\ \E ij \in Interior(u) : u.d[ij] \notin {0, 1, NaN} /\ v.d[ij] \notin {0, NaN}
    /\ \E ij \in Interior(b) : b.d[ij] \notin {0, NaN}

-----------------------------------------------------------------------------
(* C25: on a grid with nx >= 3 and ny >= 3, after every sweep the corner   *)
(* cells of p are p[0,0] == p[1,1], p[0,-1] == p[1,-2] and                 *)
(* p[-1,0] == p[-1,-1] == 0: the Dirichlet row is written last and         *)
(* overrides the Neumann copies at its two corners.                        *)
(* Equality of cells is equality of the values they hold: a corner holds   *)
(* the value copied into it.                                               *)

\* C25: after every sweep on a p of at least three rows and columns the corners hold
\* p[0,0] = p[1,1], p[0,-1] = p[1,-2], p[-1,0] = p[-1,-1] = 0; when line 30 is about
\* to run, the two corners of the last row hold the Neumann copies of lines 27 and 29.
C25_PressureCorners ==
    p.r >= 3 /\ p.c >= 3 =>
        /\ AfterSweep =>
              /\ p.d[0, 0] = p.d[1, 1]
              /\ p.d[0, p.c - 1] = p.d[1, p.c - 2]
              /\ p.d[p.r - 1, 0] = 0 /\ p.d[p.r - 1, p.c - 1] = 0
        /\ Running /\ pc = 30 =>
              /\ p.d[p.r - 1, 0] = p.d[p.r - 1, 1]
              /\ p.d[p.r - 1, p.c - 1] = p.d[p.r - 1, p.c - 2]

\* a sweep has ended on a 4 x 4 p whose two upper corners hold different non-zero
\* values, copied from different interior cells
C25_Witness ==
    /\ AfterSweep /\ p.r = 4 /\ p.c = 4
    /\ p.d[0, 0] \notin {0, NaN} /\ p.d[0, 3] \notin {0, NaN}
    /\ p.d[0, 0] # p.d[0, 3] /\ p.d[1, 1] # p.d[2, 1]
    /\ p.d[3, 0] = 0

-----------------------------------------------------------------------------
(* The training loops of src/src/navierstokes/train_ode_elem.py (lines     *)
(* 104-202) and of train_ode_linear.py (lines 88-174).  The two scripts    *)
(* run the same statements around different networks; the line numbers    *)
(* below are those of train_ode_elem.py, and line k there is line k - 16   *)
(* of train_ode_linear.py up to the batch loss and line k - 28 from the    *)
(* validation loss on.  A run is one without --test-only.  The network's   *)
(* weights after the optimiser step of an iteration are identified by the  *)
(* number of steps taken; the validation loss of a step is any float.      *)

MaxEpochs == 40     \* args.epochs ranges over 0..MaxEpochs
MaxLoss == 2        \* the finite validation losses are 1..MaxLoss

\* np.inf: above every finite loss
np_inf == MaxLoss + 1

\* float nan: every comparison with it is false
np_nan == MaxLoss + 2

\* the values val_loss.item() may have
Losses == 1 .. MaxLoss \cup {np_inf, np_nan}

\* x < y on floats
Less(x, y) == x # np_nan /\ y # np_nan /\ x < y

\* np.zeros(k) for k >= 0, as the sequence of its cells (cell i is element i + 1)
np_zeros(k) == [i \in 1 .. k |-> 0]

\* whether A[i] names a cell of the one-dimensional array A (a negative i counts from
\* the end)
InRange(A, i) == 0 - Len(A) <= i /\ i < Len(A)

\* the cell A[i] names, counted from 0
Slot(A, i) == IF i < 0 THEN i + Len(A) ELSE i

solver == <<nx, ny, nit, nt, dt, dx, dy, rho, nu, u, v, p, un, vn, b, pn, n, q, pc, err, wr, hist, written>>

\* a run of a training script: it loads the solver's output from disk and never calls
\* the solver
NotSolving ==
    /\ nx = 0 /\ ny = 0 /\ nit = 0 /\ nt = 0
    /\ dt = 0 /\ dx = 0 /\ dy = 0 /\ rho = 0 /\ nu = 0
    /\ u = Unbound /\ v = Unbound /\ p = Unbound
    /\ un = Unbound /\ vn = Unbound /\ b = Unbound /\ pn = Unbound
    /\ n = 0 /\ q = 0 /\ pc = 0 /\ err = "none" /\ wr = NoWrite
    /\ hist = [build |-> 0, solve |-> 0, sweep |-> 0, update |-> 0]
    /\ written = {}

\* lines 104-107: best_loss = np.inf; val_loss_item = np.inf; is_best is not assigned
TrainInit ==
    \E e \in 0 .. MaxEpochs :
        /\ epochs = e
        /\ iteration = -1
        /\ best_loss = np_inf
        /\ val_loss_item = np_inf
        /\ is_best = "unbound"
        /\ store_val_loss = <<>> /\ saved = <<>> /\ stored = <<>>
        /\ line = 108
        /\ raised = "none"
        /\ NotSolving

Training == raised = "none"

\* line 108: store_val_loss = np.zeros(args.epochs // 10 - 1); a negative length
\* raises ValueError
Allocate ==
    /\ Training /\ line = 108
    /\ IF epochs \div 10 - 1 < 0
       THEN /\ raised' = "ValueError"
            /\ UNCHANGED <<store_val_loss, line>>
       ELSE /\ store_val_loss' = np_zeros(epochs \div 10 - 1)
            /\ line' = 111
            /\ UNCHANGED raised
    /\ UNCHANGED <<solver, epochs, iteration, best_loss, val_loss_item, is_best, saved, stored>>

\* line 111: for iteration in range(args.epochs); after the last iteration line 202
ForIteration ==
    /\ Training /\ line = 111
    /\ IF iteration + 1 < epochs
       THEN iteration' = iteration + 1 /\ line' = 112
       ELSE line' = 202 /\ UNCHANGED iteration
    /\ UNCHANGED <<solver, epochs, best_loss, val_loss_item, is_best, store_val_loss,
                   saved, stored, raised>>

\* lines 112-157: one optimiser step on a random batch
TrainBatch ==
    /\ Training /\ line = 112
    /\ line' = 159
    /\ UNCHANGED <<solver, epochs, iteration, best_loss, val_loss_item, is_best,
                   store_val_loss, saved, stored, raised>>

\* line 159: if iteration % 10 == 0 and iteration > 0
IfValidation ==
    /\ Training /\ line = 159
    /\ line' = IF iteration % 10 = 0 /\ iteration > 0 THEN 160 ELSE 111
    /\ UNCHANGED <<solver, epochs, iteration, best_loss, val_loss_item, is_best,
                   store_val_loss, saved, stored, raised>>

\* lines 160-187: the loss on the validation set; val_loss_item = val_loss.item()
Evaluate ==
    /\ Training /\ line = 160
    /\ \E l \in Losses : val_loss_item' = l
    /\ line' = 189
    /\ UNCHANGED <<solver, epochs, iteration, best_loss, is_best, store_val_loss,
                   saved, stored, raised>>

\* line 189: store_val_loss[iteration // 10 - 1] = val_loss_item; an index outside the
\* array raises IndexError
StoreValLoss ==
    /\ Training /\ line = 189
    /\ LET i == iteration \div 10 - 1
       IN  IF InRange(store_val_loss, i)
           THEN /\ store_val_loss' =
                       [store_val_loss EXCEPT ![Slot(store_val_loss, i) + 1] = val_loss_item]
                /\ stored' = Append(stored, Slot(store_val_loss, i))
                /\ line' = 191
                /\ UNCHANGED raised
           ELSE /\ raised' = "IndexError"
                /\ UNCHANGED <<store_val_loss, stored, line>>
    /\ UNCHANGED <<solver, epochs, iteration, best_loss, val_loss_item, is_best, saved>>

\* lines 191-193: if val_loss.item() < best_loss: best_loss = val_loss.item();
\* is_best = True.  There is no else branch and no other assignment of is_best.
IfBest ==
    /\ Training /\ line = 191
    /\ IF Less(val_loss_item, best_loss)
       THEN best_loss' = val_loss_item /\ is_best' = "True"
       ELSE UNCHANGED <<best_loss, is_best>>
    /\ line' = 195
    /\ UNCHANGED <<solver, epochs, iteration, val_loss_item, store_val_loss, saved,
                   stored, raised>>

\* lines 195-200: save_checkpoint({state_dict, val_loss}, is_best, model_dir), then
\* np.save of store_val_loss; reading is_best before any assignment raises NameError
SaveCheckpoint ==
    /\ Training /\ line = 195
    /\ IF is_best = "unbound"
       THEN /\ raised' = "NameError"
            /\ UNCHANGED <<saved, line>>
       ELSE /\ saved' = Append(saved, [state_dict |-> iteration + 1,
                                       val_loss |-> val_loss_item,
                                       is_best |-> is_best])
            /\ line' = 111
            /\ UNCHANGED raised
    /\ UNCHANGED <<solver, epochs, iteration, best_loss, val_loss_item, is_best,
                   store_val_loss, stored>>

TrainNext ==
    \/ Allocate \/ ForIteration \/ TrainBatch \/ IfValidation
    \/ Evaluate \/ StoreValLoss \/ IfBest \/ SaveCheckpoint

TrainSpec == TrainInit /\ [][TrainNext]_vars

-----------------------------------------------------------------------------
(* C26, C27: the bookkeeping of the validation steps.                      *)

\* the validation losses of the calls of save_checkpoint before call k that are numbers
EarlierLosses(k) == {saved[j].val_loss : j \in 1 .. k - 1} \ {np_nan}

\* the last call of save_checkpoint made with is_best true (0 if there is none): the
\* call whose weights model_best holds
LastBest == LET S == {k \in 1 .. Len(saved) : saved[k].is_best = "True"}
            IN  IF S = {} THEN 0 ELSE CHOOSE k \in S : \A j \in S : j <= k

\* C26: a checkpoint is saved with is_best true only at a validation step whose
\* validation loss is strictly lower than every earlier validation loss of the run,
\* so the checkpoint saved last with is_best true (model_best) holds the weights of
\* the lowest validation loss seen so far.
C26_BestOnlyWhenLowest ==
    /\ \A k \in 1 .. Len(saved) :
            saved[k].is_best = "True" =>
                \A l \in EarlierLosses(k) : Less(saved[k].val_loss, l)
    /\ LastBest # 0 =>
            \A l \in EarlierLosses(Len(saved) + 1) : ~Less(l, saved[LastBest].val_loss)

\* C27: for every epochs >= 1, each write store_val_loss[iteration // 10 - 1] made at a
\* validation step falls inside the array of length epochs // 10 - 1, and distinct
\* validation steps write distinct slots.
C27_WritesInsideArray ==
    epochs >= 1 =>
        /\ line = 189 =>
              /\ iteration > 0 /\ iteration % 10 = 0 /\ iteration < epochs
              /\ Len(store_val_loss) = epochs \div 10 - 1
              /\ 0 <= iteration \div 10 - 1
              /\ iteration \div 10 - 1 < Len(store_val_loss)
        /\ raised # "IndexError"
        /\ \A i, j \in 1 .. Len(stored) : i # j => stored[i] # stored[j]

====
